---------------------------- MODULE Spec2Model ----------------------------
(***************************************************************************)
(* A model of falk/nsz-go: the NCA -> NCZ compression pipeline             *)
(* (pkg/fs CompressNca, compressBlocks, decryptChunk), the section planner *)
(* (NCA.GetEncryptionSections), the NCZ header writer (pkg/nsz), the       *)
(* absolute-offset CTR stream (pkg/crypto NewCTRStream) and the effective  *)
(* key generation rule (ParseNcaHeader, processNsp).                       *)
(*                                                                         *)
(* Byte buffers are sequences of numbers 0..255; Go's 0-based offset p is  *)
(* element p+1.  Sizes that are too large to enumerate (the 0x4000-byte    *)
(* header prefix, the 0x200-byte media unit, the 1 MiB block) are scaled   *)
(* down; every scaled size is built from the bounds below so that the      *)
(* divisibility relations of the program (header prefix and block size are *)
(* multiples of the media unit, the media unit is a multiple of the        *)
(* 16-byte AES block) are preserved.  Structure layouts (NCZSECTN,         *)
(* NCZBLOCK, section entries, u32/u64 encodings, 16-byte keys and          *)
(* counters, the >>4 of the CTR counter) keep their real sizes.            *)
(***************************************************************************)
EXTENDS Integers, Sequences, FiniteSets, TLC

VARIABLES
    nca,        \* the input of CompressNca: the reader r, totalSize, titleKey, the writer w
    cn,         \* CompressNca: position in the function and its locals
    ws,         \* the output file behind the io.WriteSeeker: bytes and position
    cb,         \* compressBlocks: submit index, results, workerErr, channel close flags
    workCh,     \* the buffered channel of work items
    resultCh,   \* the buffered channel of results
    workers,    \* the worker goroutines: position and the item / data each holds
    ctrRun,     \* a run of the CTR stream on a range and on a partition of it
    kgRun,      \* a run of the two key generation computations
    blkRun,     \* a run of the block count and the submit loop
    secRun,     \* a run of the section planner
    keyRun,     \* a run of DeriveKeys and the two title key decryptions
    bktrRun,    \* a run of ParseBktrSubsectionBuckets and the planner on its result
    decRun,     \* a run of decryptChunk on one block buffer
    nspRun      \* a run of processNsp: the source archive and the Pfs0Writer

vars == <<nca, cn, ws, cb, workCh, resultCh, workers, ctrRun, kgRun, blkRun, secRun,
          keyRun, bktrRun, decRun, nspRun>>

Off == [pc |-> "off"]

\* the pipeline is not running
PipelineOff ==
    /\ nca = Off /\ cn = Off /\ ws = Off /\ cb = Off
    /\ workCh = <<>> /\ resultCh = <<>> /\ workers = <<>>

\* the runs of single functions other than the one a specification is about
otherRuns == <<keyRun, bktrRun, decRun, nspRun>>
OtherRunsOff == keyRun = Off /\ bktrRun = Off /\ decRun = Off /\ nspRun = Off

(***************************************************************************)
(* Bounds of the model.                                                    *)
(***************************************************************************)
\* AES blocks per media unit (program: 0x200 / 16 = 32).
MediaBlocks == 1
\* Media units in the uncompressable header prefix (program: 0x4000 / 0x200 = 32).
HeaderMediaUnits == 2
\* Exponent of the block size used by CompressNca (program: 20).
DefaultBlockSizeEx == 5
\* Largest number of blocks of an input.
MaxBlocks == 3

(***************************************************************************)
(* Bytes and integer encodings                                             *)
(***************************************************************************)
Byte == 0..255

Max(a, b) == IF a > b THEN a ELSE b
Min(a, b) == IF a < b THEN a ELSE b

RECURSIVE XorBits(_, _, _)
XorBits(a, b, n) ==
    IF n = 0 THEN 0
    ELSE (((a % 2) + (b % 2)) % 2) + 2 * XorBits(a \div 2, b \div 2, n - 1)

\* a ^ b on bytes
Xor(a, b) == XorBits(a, b, 8)

\* v >> s for model values (all below 2^31)
Shr(v, s) == IF s >= 31 THEN 0 ELSE v \div (2 ^ s)

\* binary.BigEndian: the n-byte big-endian encoding of v
BigEndian(v, n) == [i \in 1..n |-> Shr(v, 8 * (n - i)) % 256]

\* binary.LittleEndian: the n-byte little-endian encoding of v
LittleEndian(v, n) == [i \in 1..n |-> Shr(v, 8 * (i - 1)) % 256]

\* the value of a little-endian byte string (used to read the output back)
RECURSIVE FromLittleEndian(_)
FromLittleEndian(s) ==
    IF s = <<>> THEN 0 ELSE s[1] + 256 * FromLittleEndian(Tail(s))

\* seq[from:to] with Go's 0-based half-open bounds
Slice(s, from, to) == SubSeq(s, from + 1, to)

Zeros(n) == [i \in 1..n |-> 0]

RECURSIVE SumSeq(_)
SumSeq(s) == IF s = <<>> THEN 0 ELSE s[1] + SumSeq(Tail(s))

(***************************************************************************)
(* pkg/crypto: AES-CTR with an absolute-offset counter                     *)
(***************************************************************************)
AesBlockSize == 16
CtrShift == 4

\* A digest of a 16-byte string that depends on every byte and its place.
Digest(s) == SumSeq([i \in 1..Len(s) |-> (2 * i + 1) * s[i]]) % 256

\* block.Encrypt(counter)[j] (j 0-based): the AES block cipher is a library
\* primitive; it is modelled as a fixed function of the key, of every byte
\* of the counter block and of the position within the block.
AesEncryptByte(key, block, j) ==
    (31 * Digest(key) + 7 * Digest(block) + 13 * j + 5) % 256

\* the 16-byte big-endian counter advanced by m blocks (cipher.NewCTR)
RECURSIVE CtrAdd(_, _, _)
CtrAdd(counter, m, i) ==
    IF i = 0 \/ m = 0 THEN counter
    ELSE LET s == counter[i] + (m % 256)
         IN  CtrAdd([counter EXCEPT ![i] = s % 256],
                    (m \div 256) + (s \div 256), i - 1)

\* NewCTRStream without the block number of the offset in the counter
NewCTRStream_IgnoreOffset(key, iv, absoluteOffset) ==
    IF Len(key) # 16 THEN [err |-> TRUE]
    ELSE [err |-> FALSE, key |-> key,
          counter |-> [i \in 1..16 |->
                         IF i <= 8 THEN (IF i <= Len(iv) THEN iv[i] ELSE 0)
                         ELSE 0]]

\* NewCTRStream(key, iv, absoluteOffset): the stream starts at byte 0 of
\* the keystream block numbered absoluteOffset >> 4; the low four bits of
\* the offset are dropped.
NewCTRStream(key, iv, absoluteOffset) ==
    IF Len(key) # 16 THEN [err |-> TRUE]
    ELSE [err |-> FALSE, key |-> key,
          counter |-> [i \in 1..16 |->
                         IF i <= 8 THEN (IF i <= Len(iv) THEN iv[i] ELSE 0)
                         ELSE BigEndian(Shr(absoluteOffset, CtrShift), 8)[i - 8]]]

\* stream.XORKeyStream(slice, slice) on a fresh stream
XORKeyStream(stream, slice) ==
    [k \in 1..Len(slice) |->
        Xor(slice[k],
            AesEncryptByte(stream.key,
                           CtrAdd(stream.counter, (k - 1) \div AesBlockSize, 16),
                           (k - 1) % AesBlockSize))]

(***************************************************************************)
(* Effective key generation                                                *)
(***************************************************************************)
\* the generation without the floor at 0
HeaderKeyGen_NoFloor(KeyGeneration, KeyGeneration2) ==
    (IF KeyGeneration2 > KeyGeneration THEN KeyGeneration2 ELSE KeyGeneration) - 1

\* ParseNcaHeader: the generation handed to UnwrapAesWrappedTitleKey
HeaderKeyGen(KeyGeneration, KeyGeneration2) ==
    LET keyGen0 == IF KeyGeneration2 > KeyGeneration
                   THEN KeyGeneration2 ELSE KeyGeneration
        keyGen1 == keyGen0 - 1
    IN  IF keyGen1 < 0 THEN 0 ELSE keyGen1

\* processNsp: the generation handed to DecryptTitleKey
NspKeyGen(KeyGeneration, KeyGeneration2) ==
    LET keyGen0 == IF KeyGeneration2 > KeyGeneration
                   THEN KeyGeneration2 ELSE KeyGeneration
        keyGen1 == keyGen0 - 1
    IN  IF keyGen1 < 0 THEN 0 ELSE keyGen1

(***************************************************************************)
(* Block parameters of CompressNca and the work items of compressBlocks    *)
(***************************************************************************)
MediaSize == AesBlockSize * MediaBlocks
NcaFullHeaderSize == MediaSize * HeaderMediaUnits

\* the block count rounded down
BlockCount_Floor(totalSize, blockSize) ==
    (totalSize - NcaFullHeaderSize) \div blockSize

\* CompressNca: blockCount := uint32((dataSize + blockSize - 1) / blockSize)
BlockCount(totalSize, blockSize) ==
    LET dataSize == totalSize - NcaFullHeaderSize
    IN  (dataSize + blockSize - 1) \div blockSize

\* compressBlocks, "Submit work": the item of block i
WorkItem(i, totalSize, blockSize) ==
    LET offset == NcaFullHeaderSize + i * blockSize
        size == IF offset + blockSize > totalSize
                THEN totalSize - offset ELSE blockSize
    IN  [index |-> i, offset |-> offset, size |-> size]

(***************************************************************************)
(* pkg/fs: the section planner, NCA.GetEncryptionSections                  *)
(*                                                                         *)
(* A header is [SectionTables, FsHeaders, TitleKey]: four section table    *)
(* entries [MediaStartOffset, MediaEndOffset], four FS headers             *)
(* [CryptoType, CryptoCounter, BktrSubsection] and the title key (the      *)
(* empty sequence when nil).  The buckets ParseBktrSubsectionBuckets       *)
(* returns for a section are an input, [Entries |-> <<[VirtualOffset,      *)
(* Size, Ctr], ...>>] each, the entry sizes already computed.              *)
(***************************************************************************)
CryptoTypeNone == 1
CryptoTypeXTS == 2
CryptoTypeCTR == 3
CryptoTypeBKTR == 4

Nil == <<>>

\* a title key, and the key of a section planned without one
TitleKey1 == [i \in 1..16 |-> 16 + i]
ZeroKey == Zeros(16)

\* copy(dst[:], src) into a zeroed 16-byte array
Copy16(src) == [i \in 1..16 |-> IF i <= Len(src) THEN src[i] ELSE 0]

\* buildBaseIV: the 8-byte counter at bytes 8..16, then the whole reversed
buildBaseIV(counter) ==
    LET iv == [i \in 1..16 |-> IF i > 8 /\ i - 8 <= Len(counter)
                               THEN counter[i - 8] ELSE 0]
    IN  [i \in 1..16 |-> iv[17 - i]]

\* SetBktrCounter with ctrVal stored little-endian
SetBktrCounter_LittleEndian(baseCounter, ctrVal) ==
    [i \in 1..16 |->
        IF i \in 5..8 THEN LittleEndian(ctrVal, 4)[i - 4]
        ELSE IF i <= Len(baseCounter) THEN baseCounter[i] ELSE 0]

\* SetBktrCounter: bytes 4..7 of the base counter set to big-endian ctrVal
SetBktrCounter(baseCounter, ctrVal) ==
    [i \in 1..16 |->
        IF i \in 5..8 THEN BigEndian(ctrVal, 4)[i - 4]
        ELSE IF i <= Len(baseCounter) THEN baseCounter[i] ELSE 0]

\* sec.CryptoKey: the title key when there is one, zeros otherwise
SectionKey(titleKey) == IF titleKey # Nil THEN Copy16(titleKey) ELSE Zeros(16)

NczSectionEntry(offset, size, cryptoType, titleKey, counter) ==
    [Offset |-> offset, Size |-> size, CryptoType |-> cryptoType, Padding |-> 0,
     CryptoKey |-> SectionKey(titleKey), CryptoCounter |-> Copy16(counter)]

RECURSIVE FlattenEntries(_)
FlattenEntries(buckets) ==
    IF buckets = <<>> THEN <<>>
    ELSE buckets[1].Entries \o FlattenEntries(Tail(buckets))

\* parseBktrSections, the loop over buckets and entries: the sections of
\* the entries of non-zero size, in order
RECURSIVE BktrEntrySections(_, _, _, _)
BktrEntrySections(entries, sectionOffset, titleKey, baseIV) ==
    IF entries = <<>> THEN <<>>
    ELSE LET entry == entries[1]
             rest == BktrEntrySections(Tail(entries), sectionOffset, titleKey, baseIV)
         IN  IF entry.Size = 0 THEN rest
             ELSE <<NczSectionEntry(sectionOffset + entry.VirtualOffset, entry.Size,
                                    CryptoTypeCTR, titleKey,
                                    SetBktrCounter(baseIV, entry.Ctr))>> \o rest

\* parseBktrSections, lastEntryEnd: the largest end of an emitted section
RECURSIVE LastEntryEnd(_)
LastEntryEnd(sections) ==
    IF sections = <<>> THEN 0
    ELSE Max(sections[1].Offset + sections[1].Size, LastEntryEnd(Tail(sections)))

\* parseBktrSections with a tail section that keeps the crypto type BKTR
parseBktrSections_BktrTail(sectionOffset, sectionEnd, buckets, titleKey, baseIV) ==
    IF Len(buckets) = 0 THEN <<>>
    ELSE LET sections == BktrEntrySections(FlattenEntries(buckets), sectionOffset,
                                           titleKey, baseIV)
             lastEntryEnd == LastEntryEnd(sections)
         IN  IF lastEntryEnd < sectionEnd
             THEN Append(sections,
                         NczSectionEntry(lastEntryEnd, sectionEnd - lastEntryEnd,
                                         CryptoTypeBKTR, titleKey, baseIV))
             ELSE sections

\* parseBktrSections: buckets is what ParseBktrSubsectionBuckets returned
\* (empty when it returned an error or nothing)
parseBktrSections(sectionOffset, sectionEnd, buckets, titleKey, baseIV) ==
    IF Len(buckets) = 0 THEN <<>>
    ELSE LET sections == BktrEntrySections(FlattenEntries(buckets), sectionOffset,
                                           titleKey, baseIV)
             lastEntryEnd == LastEntryEnd(sections)
         IN  IF lastEntryEnd < sectionEnd
             THEN Append(sections,
                         NczSectionEntry(lastEntryEnd, sectionEnd - lastEntryEnd,
                                         CryptoTypeCTR, titleKey, baseIV))
             ELSE sections

\* the sections GetEncryptionSections appends for section table entry i
EntrySections(header, bktrBuckets, i) ==
    LET entry == header.SectionTables[i]
        fsHeader == header.FsHeaders[i]
        sectionOffset == entry.MediaStartOffset * MediaSize
        sectionEnd == entry.MediaEndOffset * MediaSize
        sectionSize == sectionEnd - sectionOffset
        baseIV == buildBaseIV(fsHeader.CryptoCounter)
        bktrSections ==
            IF /\ fsHeader.CryptoType = CryptoTypeBKTR
               /\ fsHeader.BktrSubsection.present
               /\ fsHeader.BktrSubsection.Size > 0
            THEN parseBktrSections(sectionOffset, sectionEnd, bktrBuckets[i],
                                   header.TitleKey, baseIV)
            ELSE <<>>
    IN  IF entry.MediaStartOffset = 0 /\ entry.MediaEndOffset = 0 THEN <<>>
        ELSE IF Len(bktrSections) > 0 THEN bktrSections
        ELSE <<NczSectionEntry(sectionOffset, sectionSize, fsHeader.CryptoType,
                               header.TitleKey, baseIV)>>

\* sort.Slice by Offset; on lists this short it is an insertion sort, which
\* moves an element left only past elements of larger Offset
RECURSIVE InsertByOffset(_, _)
InsertByOffset(sorted, x) ==
    IF sorted = <<>> THEN <<x>>
    ELSE LET last == sorted[Len(sorted)]
         IN  IF x.Offset < last.Offset
             THEN Append(InsertByOffset(SubSeq(sorted, 1, Len(sorted) - 1), x), last)
             ELSE Append(sorted, x)

RECURSIVE SortByOffset(_)
SortByOffset(list) ==
    IF list = <<>> THEN <<>>
    ELSE InsertByOffset(SortByOffset(SubSeq(list, 1, Len(list) - 1)), list[Len(list)])

\* GetEncryptionSections without the final sort
GetEncryptionSections_Unsorted(header, bktrBuckets) ==
    EntrySections(header, bktrBuckets, 1) \o EntrySections(header, bktrBuckets, 2)
        \o EntrySections(header, bktrBuckets, 3) \o EntrySections(header, bktrBuckets, 4)

\* NCA.GetEncryptionSections
GetEncryptionSections(header, bktrBuckets) ==
    SortByOffset(EntrySections(header, bktrBuckets, 1)
                    \o EntrySections(header, bktrBuckets, 2)
                    \o EntrySections(header, bktrBuckets, 3)
                    \o EntrySections(header, bktrBuckets, 4))

(***************************************************************************)
(* pkg/fs: ParseBktrSubsectionBuckets                                      *)
(*                                                                         *)
(* The decrypted subsection index is padding(4) bucketCount(4)             *)
(* totalSize(8), the base offsets, then per bucket padding(4)              *)
(* entryCount(4) endOffset(8) and entryCount entries of virtualOffset(8)   *)
(* padding(4) ctr(4).  The base offsets area (0x3FF0 bytes in the format)  *)
(* is BaseOffsetsBlocks AES blocks long here.                              *)
(***************************************************************************)
\* Length of the base offsets area, in AES blocks.
BaseOffsetsBlocks == 1

\* if bucketCount == 0 || bucketCount > 100
MaxBucketCount == 100
\* if bucket.EntryCount > 0xFFFF
MaxEntryCount == 65535

BktrIndexHeaderSize == 16 + AesBlockSize * BaseOffsetsBlocks

\* binary.LittleEndian.Uint32(data[pos : pos+4]) and Uint64(data[pos : pos+8])
Uint32At(data, pos) == FromLittleEndian(Slice(data, pos, pos + 4))
Uint64At(data, pos) == FromLittleEndian(Slice(data, pos, pos + 8))

\* the entries of a bucket that lie inside the data: the inner loop stops at
\* the first entry that does not
BucketEntriesRead(data, entriesPos, entryCount) ==
    LET room == IF Len(data) >= entriesPos
                THEN (Len(data) - entriesPos) \div 16 ELSE 0
        n == Min(entryCount, room)
    IN  [j \in 1..n |->
            [VirtualOffset |-> Uint64At(data, entriesPos + (j - 1) * 16),
             Ctr |-> Uint32At(data, entriesPos + (j - 1) * 16 + 12)]]

\* "Calculate sizes for entries"
BucketEntriesSized(raw, endOffset) ==
    [j \in 1..Len(raw) |->
        [VirtualOffset |-> raw[j].VirtualOffset,
         Size |-> IF j < Len(raw)
                  THEN raw[j + 1].VirtualOffset - raw[j].VirtualOffset
                  ELSE endOffset - raw[j].VirtualOffset,
         Ctr |-> raw[j].Ctr]]

\* the bucket loop from bucket i at bucketPos on; a bucket header past the
\* end of the data or an entry count above 0xFFFF ends the loop
RECURSIVE ParseBuckets(_, _, _, _)
ParseBuckets(data, bucketPos, i, bucketCount) ==
    IF i >= bucketCount \/ bucketPos + 16 > Len(data) THEN <<>>
    ELSE LET entryCount == Uint32At(data, bucketPos + 4)
             endOffset == Uint64At(data, bucketPos + 8)
             entriesPos == bucketPos + 16
         IN  IF entryCount > MaxEntryCount THEN <<>>
             ELSE <<[Entries |-> BucketEntriesSized(
                                     BucketEntriesRead(data, entriesPos, entryCount),
                                     endOffset)]>>
                    \o ParseBuckets(data, entriesPos + entryCount * 16, i + 1, bucketCount)

\* the bucket loop that drops everything read when it has to stop early
RECURSIVE BucketsComplete(_, _, _, _)
BucketsComplete(data, bucketPos, i, bucketCount) ==
    IF i >= bucketCount THEN TRUE
    ELSE IF bucketPos + 16 > Len(data) THEN FALSE
    ELSE LET entryCount == Uint32At(data, bucketPos + 4)
         IN  /\ entryCount <= MaxEntryCount
             /\ bucketPos + 16 + entryCount * 16 <= Len(data)
             /\ BucketsComplete(data, bucketPos + 16 + entryCount * 16, i + 1, bucketCount)

\* r.ReadAt(bktrData, bktrDataOffset): area holds the bytes of the file from
\* bktrDataOffset to its end
ReadBktrData(area, size) ==
    IF size > Len(area) THEN [err |-> TRUE, data |-> Nil]
    ELSE [err |-> FALSE, data |-> Slice(area, 0, size)]

\* ParseBktrSubsectionBuckets without the check of bucketCount
ParseBktrSubsectionBuckets_AnyCount(area, sectionOffset, bktrHeader, titleKey, baseCounter) ==
    LET read == ReadBktrData(area, bktrHeader.Size)
        stream == NewCTRStream(titleKey, baseCounter, sectionOffset + bktrHeader.Offset)
        bktrData == XORKeyStream(stream, read.data)
        bucketCount == Uint32At(bktrData, 4)
        none == [err |-> FALSE, buckets |-> <<>>]
    IN  IF ~bktrHeader.present \/ bktrHeader.Size = 0 THEN none
        ELSE IF titleKey = Nil \/ Len(baseCounter) < 16 THEN none
        ELSE IF read.err \/ stream.err THEN [err |-> TRUE, buckets |-> <<>>]
        ELSE IF Len(bktrData) < BktrIndexHeaderSize THEN none
        ELSE [err |-> FALSE,
              buckets |-> ParseBuckets(bktrData, BktrIndexHeaderSize, 0, bucketCount)]

\* ParseBktrSubsectionBuckets(r, sectionOffset, bktrHeader, titleKey,
\* baseCounter): [err, buckets]
ParseBktrSubsectionBuckets(area, sectionOffset, bktrHeader, titleKey, baseCounter) ==
    LET read == ReadBktrData(area, bktrHeader.Size)
        stream == NewCTRStream(titleKey, baseCounter, sectionOffset + bktrHeader.Offset)
        bktrData == XORKeyStream(stream, read.data)
        bucketCount == Uint32At(bktrData, 4)
        none == [err |-> FALSE, buckets |-> <<>>]
    IN  IF ~bktrHeader.present \/ bktrHeader.Size = 0 THEN none
        ELSE IF titleKey = Nil \/ Len(baseCounter) < 16 THEN none
        ELSE IF read.err \/ stream.err THEN [err |-> TRUE, buckets |-> <<>>]
        ELSE IF Len(bktrData) < 16 THEN none
        ELSE IF bucketCount = 0 \/ bucketCount > MaxBucketCount THEN none
        ELSE IF Len(bktrData) < BktrIndexHeaderSize THEN none
        ELSE [err |-> FALSE,
              buckets |-> ParseBuckets(bktrData, BktrIndexHeaderSize, 0, bucketCount)]

\* parseBktrSections' use of the result: an error counts as no buckets
BucketsOrNone(parsed) == IF parsed.err THEN <<>> ELSE parsed.buckets

(***************************************************************************)
(* pkg/zstd: Compress / Decompress                                         *)
(*                                                                         *)
(* The zstd codec is a library; it is modelled by a lossless run-length    *)
(* codec behind the zstd frame magic, whose output can be shorter than,    *)
(* as long as, or longer than its input.                                   *)
(***************************************************************************)
ZstdMagic == <<40, 181, 47, 253>>

RECURSIVE RunLength(_, _)
RunLength(s, v) == IF s = <<>> \/ s[1] # v THEN 0 ELSE 1 + RunLength(Tail(s), v)

RECURSIVE RleEncode(_)
RleEncode(s) ==
    IF s = <<>> THEN <<>>
    ELSE LET n == RunLength(s, s[1])
         IN  <<n, s[1]>> \o RleEncode(SubSeq(s, n + 1, Len(s)))

RECURSIVE RleDecode(_)
RleDecode(s) ==
    IF Len(s) < 2 THEN <<>>
    ELSE [k \in 1..s[1] |-> s[2]] \o RleDecode(SubSeq(s, 3, Len(s)))

\* zstd.Compress(src, level)
ZstdCompress(src) == ZstdMagic \o RleEncode(src)

IsZstdFrame(s) == Len(s) >= 4 /\ SubSeq(s, 1, 4) = ZstdMagic /\ (Len(s) - 4) % 2 = 0

\* zstd.Decompress(src); the empty sequence stands for a decoding error
ZstdDecompress(s) == IF IsZstdFrame(s) THEN RleDecode(SubSeq(s, 5, Len(s))) ELSE <<>>

(***************************************************************************)
(* pkg/fs: decryptChunk and the per-block work of compressBlocks           *)
(***************************************************************************)
\* the body of the loop without the test of the crypto type
DecryptSection_AnyType(chunk, chunkStart, sec) ==
    LET chunkEnd == chunkStart + Len(chunk)
        secEnd == sec.Offset + sec.Size
        start == IF sec.Offset > chunkStart THEN sec.Offset ELSE chunkStart
        end == IF secEnd < chunkEnd THEN secEnd ELSE chunkEnd
        stream == NewCTRStream(sec.CryptoKey, sec.CryptoCounter, start)
    IN  IF chunkStart >= secEnd \/ chunkEnd <= sec.Offset THEN chunk
        ELSE IF ~stream.err
        THEN Slice(chunk, 0, start - chunkStart)
                \o XORKeyStream(stream, Slice(chunk, start - chunkStart, end - chunkStart))
                \o Slice(chunk, end - chunkStart, Len(chunk))
        ELSE chunk

\* decryptChunk, the body of the loop for one section
DecryptSection(chunk, chunkStart, sec) ==
    LET chunkEnd == chunkStart + Len(chunk)
        secEnd == sec.Offset + sec.Size
        start == IF sec.Offset > chunkStart THEN sec.Offset ELSE chunkStart
        end == IF secEnd < chunkEnd THEN secEnd ELSE chunkEnd
        stream == NewCTRStream(sec.CryptoKey, sec.CryptoCounter, start)
    IN  IF chunkStart >= secEnd \/ chunkEnd <= sec.Offset THEN chunk
        ELSE IF (sec.CryptoType = 3 \/ sec.CryptoType = 4) /\ ~stream.err
        THEN Slice(chunk, 0, start - chunkStart)
                \o XORKeyStream(stream, Slice(chunk, start - chunkStart, end - chunkStart))
                \o Slice(chunk, end - chunkStart, Len(chunk))
        ELSE chunk

\* decryptChunk(chunk, chunkOffset, sections)
RECURSIVE decryptChunk(_, _, _)
decryptChunk(chunk, chunkOffset, sections) ==
    IF sections = <<>> THEN chunk
    ELSE decryptChunk(DecryptSection(chunk, chunkOffset, sections[1]),
                      chunkOffset, Tail(sections))

\* "Use smaller of compressed/uncompressed" with <= for <
KeepSmaller_OrEqual(compressed, chunk) ==
    IF Len(compressed) <= Len(chunk) THEN compressed ELSE chunk

\* compressBlocks: "Use smaller of compressed/uncompressed"
KeepSmaller(compressed, chunk) ==
    IF Len(compressed) < Len(chunk) THEN compressed ELSE chunk

\* r.ReadAt(chunk, w.offset) returning n bytes: chunk[:n]
ReadChunk(data, w, n) == Slice(data, w.offset, w.offset + n)

\* compressBlocks, the worker's work on a chunk it has read
EncodeChunk(chunk, w, sections) ==
    LET plain == decryptChunk(chunk, w.offset, sections)
    IN  KeepSmaller(ZstdCompress(plain), plain)

(***************************************************************************)
(* The seekable writer and the NCZ headers                                 *)
(***************************************************************************)
\* ws.Write(b) at the current position, growing the file as needed
WsWrite(wr, b) ==
    LET n == Len(b)
        newLen == Max(Len(wr.buf), wr.pos + n)
    IN  [buf |-> [k \in 1..newLen |->
                    IF k > wr.pos /\ k <= wr.pos + n THEN b[k - wr.pos]
                    ELSE IF k <= Len(wr.buf) THEN wr.buf[k] ELSE 0],
         pos |-> wr.pos + n]

\* ws.Seek(offset, io.SeekStart)
WsSeek(wr, offset) == [wr EXCEPT !.pos = offset]

RECURSIVE Concat(_)
Concat(seqs) == IF seqs = <<>> THEN <<>> ELSE seqs[1] \o Concat(Tail(seqs))

\* "NCZSECTN", "NCZBLOCK"
MagicNCZSECTN == <<78, 67, 90, 83, 69, 67, 84, 78>>
MagicNCZBLOCK == <<78, 67, 90, 66, 76, 79, 67, 75>>

\* the entry written without its Padding field
EncodeSectionEntry_NoPadding(sec) ==
    LittleEndian(sec.Offset, 8) \o LittleEndian(sec.Size, 8)
        \o LittleEndian(sec.CryptoType, 8) \o sec.CryptoKey \o sec.CryptoCounter

\* binary.Write(w, binary.LittleEndian, s) for an NczSectionEntry
EncodeSectionEntry(sec) ==
    LittleEndian(sec.Offset, 8) \o LittleEndian(sec.Size, 8)
        \o LittleEndian(sec.CryptoType, 8) \o LittleEndian(sec.Padding, 8)
        \o sec.CryptoKey \o sec.CryptoCounter

\* nsz.WriteNczHeader(w, sections)
WriteNczHeader(wr, sections) ==
    WsWrite(wr, MagicNCZSECTN \o LittleEndian(Len(sections), 8)
                   \o Concat([k \in 1..Len(sections) |-> EncodeSectionEntry(sections[k])]))

\* binary.Write(ws, binary.LittleEndian, blockHeader)
EncodeBlockHeader(blockCount, dataSize) ==
    MagicNCZBLOCK \o <<2, 1, 0, DefaultBlockSizeEx>>
        \o LittleEndian(blockCount, 4) \o LittleEndian(dataSize, 8)

\* CompressNca, step 5: the blocks written in index order
WriteBlocks(wr, compressedBlocks) == WsWrite(wr, Concat(compressedBlocks))

\* the size table written at the end of the file, with no seek
WriteSizeTable_NoSeek(wr, sizeListOffset, compressedSizes) ==
    WsWrite(wr, Concat([k \in 1..Len(compressedSizes) |->
                           LittleEndian(compressedSizes[k], 4)]))

\* CompressNca, step 6: endPos, seek to sizeListOffset, the sizes, seek back
WriteSizeTable(wr, sizeListOffset, compressedSizes) ==
    WsSeek(WsWrite(WsSeek(wr, sizeListOffset),
                   Concat([k \in 1..Len(compressedSizes) |->
                              LittleEndian(compressedSizes[k], 4)])),
           wr.pos)

(***************************************************************************)
(* A BKTR subsection index as it lies in an NCA file                        *)
(***************************************************************************)
\* the bytes of a subsection index: bucketCount is the header field, each
\* bucket is [EntryCount (the field), EndOffset, Entries (those present)]
EncodeBktrEntry(e) == LittleEndian(e.VirtualOffset, 8) \o Zeros(4) \o LittleEndian(e.Ctr, 4)

EncodeBktrBucket(b) ==
    Zeros(4) \o LittleEndian(b.EntryCount, 4) \o LittleEndian(b.EndOffset, 8)
        \o Concat([j \in 1..Len(b.Entries) |-> EncodeBktrEntry(b.Entries[j])])

EncodeBktrIndex(bucketCount, buckets) ==
    Zeros(4) \o LittleEndian(bucketCount, 4) \o Zeros(8)
        \o Zeros(AesBlockSize * BaseOffsetsBlocks)
        \o Concat([k \in 1..Len(buckets) |-> EncodeBktrBucket(buckets[k])])

IndexEntry(virtualOffset, ctr) == [VirtualOffset |-> virtualOffset, Ctr |-> ctr]
IndexBucket(entryCount, endOffset, entries) ==
    [EntryCount |-> entryCount, EndOffset |-> endOffset, Entries |-> entries]

\* two buckets of three entries of 16 bytes
TwoBucketsOfThree ==
    << IndexBucket(3, 48, <<IndexEntry(0, 1), IndexEntry(16, 258), IndexEntry(32, 3)>>),
       IndexBucket(3, 96, <<IndexEntry(48, 16909060), IndexEntry(64, 5),
                            IndexEntry(80, 65536)>>) >>

(***************************************************************************)
(* Section planner runs: GetEncryptionSections on enumerated headers       *)
(***************************************************************************)
\* Media units past the header prefix that a section table entry may reach.
MaxDataMedia == 2

MaxMedia == HeaderMediaUnits + MaxDataMedia

Vacant == [MediaStartOffset |-> 0, MediaEndOffset |-> 0]
NoBktr == [present |-> FALSE, Offset |-> 0, Size |-> 0]
FsCounter(i) == [k \in 1..8 |-> 16 * i + k]
PlainFsHeader(i, cryptoType) ==
    [CryptoType |-> cryptoType, CryptoCounter |-> FsCounter(i), BktrSubsection |-> NoBktr]
BktrFsHeader(i) ==
    [CryptoType |-> CryptoTypeBKTR, CryptoCounter |-> FsCounter(i),
     BktrSubsection |-> [present |-> TRUE, Offset |-> 0, Size |-> MediaSize]]

\* section table entries; MediaStartOffset <= MediaEndOffset, so that the
\* unsigned sectionEnd - sectionOffset does not wrap
SectionEntryChoices ==
    {e \in [MediaStartOffset : 0..MaxMedia, MediaEndOffset : 0..MaxMedia] :
        e.MediaStartOffset <= e.MediaEndOffset}

BktrEntry(virtualOffset, size, ctr) ==
    [VirtualOffset |-> virtualOffset, Size |-> size, Ctr |-> ctr]

\* results of ParseBktrSubsectionBuckets: nothing; entries tiling the first
\* two media units; two buckets with an empty entry and an unaligned cut;
\* a first entry past the section start; only an empty entry; overlapping
\* entries
BucketChoices ==
    { <<>>,
      << [Entries |-> <<BktrEntry(0, MediaSize, 7), BktrEntry(MediaSize, MediaSize, 9)>>] >>,
      << [Entries |-> <<BktrEntry(0, 8, 1)>>],
         [Entries |-> <<BktrEntry(8, 0, 2), BktrEntry(8, MediaSize - 8, 258)>>] >>,
      << [Entries |-> <<BktrEntry(5, MediaSize - 5, 7)>>] >>,
      << [Entries |-> <<BktrEntry(0, 0, 1)>>] >>,
      << [Entries |-> <<BktrEntry(0, MediaSize, 7), BktrEntry(8, MediaSize, 2)>>] >> }

InitSections ==
    /\ \E e1 \in SectionEntryChoices, e2 \in SectionEntryChoices,
          c1 \in {CryptoTypeNone, CryptoTypeXTS, CryptoTypeCTR, CryptoTypeBKTR},
          c2 \in {CryptoTypeNone, CryptoTypeCTR, CryptoTypeBKTR},
          b1 \in BucketChoices, b2 \in BucketChoices,
          titleKey \in {Nil, TitleKey1},
          totalSize \in {NcaFullHeaderSize + MaxDataMedia * MediaSize} :
         \* ParseBktrSubsectionBuckets returns buckets only for a BKTR
         \* section with a subsection header and a title key
         /\ b1 # <<>> => (c1 = CryptoTypeBKTR /\ titleKey # Nil)
         /\ b2 # <<>> => (c2 = CryptoTypeBKTR /\ titleKey # Nil /\ b2 = b1)
         /\ secRun = [pc |-> "plan",
                      header |-> [SectionTables |-> <<e1, e2, Vacant, Vacant>>,
                                  FsHeaders |->
                                     <<IF c1 = CryptoTypeBKTR THEN BktrFsHeader(1)
                                       ELSE PlainFsHeader(1, c1),
                                       IF c2 = CryptoTypeBKTR THEN BktrFsHeader(2)
                                       ELSE PlainFsHeader(2, c2),
                                       PlainFsHeader(3, CryptoTypeNone),
                                       PlainFsHeader(4, CryptoTypeNone)>>,
                                  TitleKey |-> titleKey],
                      bktrBuckets |-> <<b1, b2, <<>>, <<>> >>,
                      totalSize |-> totalSize,
                      sections |-> <<>>]
    /\ ctrRun = Off
    /\ kgRun = Off
    /\ blkRun = Off
    /\ PipelineOff
    /\ OtherRunsOff

\* CompressNca, step 2: sections, err := nca.GetEncryptionSections()
PlanSections ==
    /\ secRun.pc = "plan"
    /\ secRun' = [secRun EXCEPT
                    !.sections = GetEncryptionSections(secRun.header, secRun.bktrBuckets),
                    !.pc = "planned"]
    /\ UNCHANGED <<nca, cn, ws, cb, workCh, resultCh, workers, ctrRun, kgRun, blkRun, otherRuns>>

NextSections == PlanSections
SpecSections == InitSections /\ [][NextSections]_vars

SecBytes(sec) == sec.Offset .. (sec.Offset + sec.Size - 1)

StrictlyIncreasing(sections) ==
    \A k \in 1..(Len(sections) - 1) : sections[k].Offset < sections[k + 1].Offset

NonOverlapping(sections) ==
    \A k \in 1..Len(sections), l \in 1..Len(sections) :
        k < l => SecBytes(sections[k]) \cap SecBytes(sections[l]) = {}

IsVacant(entry) == entry.MediaStartOffset = 0 /\ entry.MediaEndOffset = 0

MediaBytes(entry) ==
    (entry.MediaStartOffset * MediaSize) .. (entry.MediaEndOffset * MediaSize - 1)

\* the sections emitted for section table entry i cover exactly its range
EntryUnionExact(header, bktrBuckets, i) ==
    LET emitted == EntrySections(header, bktrBuckets, i)
    IN  UNION {SecBytes(emitted[k]) : k \in 1..Len(emitted)}
            = MediaBytes(header.SectionTables[i])

PlannerPostcondition(header, bktrBuckets, sections) ==
    /\ StrictlyIncreasing(sections)
    /\ NonOverlapping(sections)
    /\ \A i \in 1..4 :
         ~IsVacant(header.SectionTables[i]) => EntryUnionExact(header, bktrBuckets, i)

NonEmptyEntries(buckets) == SelectSeq(FlattenEntries(buckets), LAMBDA e : e.Size # 0)

\* the BKTR entries of non-zero size tile a prefix of the section
BktrTilesPrefix(entry, buckets) ==
    LET es == NonEmptyEntries(buckets)
    IN  /\ Len(es) >= 1
        /\ es[1].VirtualOffset = 0
        /\ \A k \in 1..(Len(es) - 1) :
             es[k + 1].VirtualOffset = es[k].VirtualOffset + es[k].Size
        /\ entry.MediaStartOffset * MediaSize
              + es[Len(es)].VirtualOffset + es[Len(es)].Size
                 <= entry.MediaEndOffset * MediaSize

WellFormedHeader(header, bktrBuckets) ==
    /\ \A i \in 1..4 :
         ~IsVacant(header.SectionTables[i]) =>
            /\ header.SectionTables[i].MediaStartOffset
                  < header.SectionTables[i].MediaEndOffset
            /\ (/\ header.FsHeaders[i].CryptoType = CryptoTypeBKTR
                /\ header.FsHeaders[i].BktrSubsection.Size > 0
                /\ bktrBuckets[i] # <<>>)
                  => BktrTilesPrefix(header.SectionTables[i], bktrBuckets[i])
    /\ \A i \in 1..4, j \in 1..4 :
         (i < j /\ ~IsVacant(header.SectionTables[i]) /\ ~IsVacant(header.SectionTables[j]))
            => MediaBytes(header.SectionTables[i]) \cap MediaBytes(header.SectionTables[j]) = {}

C8_SectionsCoverData ==
    secRun.pc = "planned" =>
        /\ \A p \in NcaFullHeaderSize..(secRun.totalSize - 1) :
             Cardinality({k \in 1..Len(secRun.sections) :
                             p \in SecBytes(secRun.sections[k])}) = 1
        /\ \A k \in 1..Len(secRun.sections) :
             /\ secRun.sections[k].Offset >= NcaFullHeaderSize
             /\ secRun.sections[k].Offset + secRun.sections[k].Size <= secRun.totalSize

(***************************************************************************)
(* CTR position-independence (NewCTRStream as decryptChunk uses it)        *)
(***************************************************************************)
\* Longest range the CTR runs cover.
MaxCtrLen == 40

RECURSIVE SortedSeq(_)
SortedSeq(S) ==
    IF S = {} THEN <<>>
    ELSE LET m == CHOOSE x \in S : \A y \in S : x <= y
         IN  <<m>> \o SortedSeq(S \ {m})

CtrOffsets == {0, 2 * AesBlockSize, 2 * AesBlockSize + 8, 255 * AesBlockSize}
CtrCutCandidates(O, n) ==
    {c \in {O + 5, O + AesBlockSize, O + 2 * AesBlockSize, O + 2 * AesBlockSize + 1} :
        c < O + n}

\* piece k (1-based) of the partition of [O, O+n) at the cut points
CtrPieceStart(run, k) == IF k = 1 THEN run.O ELSE SortedSeq(run.cuts)[k - 1]
CtrPieceEnd(run, k) ==
    IF k = Cardinality(run.cuts) + 1 THEN run.O + Len(run.data)
    ELSE SortedSeq(run.cuts)[k]

InitCtr ==
    /\ \E key \in {TitleKey1, ZeroKey}, iv \in {Zeros(16), [i \in 1..16 |-> i]},
          O \in CtrOffsets, n \in {MaxCtrLen \div 2, MaxCtrLen} :
         \E cuts \in SUBSET CtrCutCandidates(O, n) :
            ctrRun = [pc |-> "whole", key |-> key, iv |-> iv, O |-> O,
                      data |-> [k \in 1..n |-> (37 * k + 11) % 256],
                      cuts |-> cuts, whole |-> <<>>, pieces |-> <<>>, k |-> 1]
    /\ kgRun = Off
    /\ blkRun = Off
    /\ secRun = Off
    /\ PipelineOff
    /\ OtherRunsOff

\* one call over the whole range [O, O+n)
CtrWhole ==
    /\ ctrRun.pc = "whole"
    /\ ctrRun' = [ctrRun EXCEPT
                    !.whole = XORKeyStream(NewCTRStream(ctrRun.key, ctrRun.iv, ctrRun.O),
                                           ctrRun.data),
                    !.pc = "pieces"]
    /\ UNCHANGED <<nca, cn, ws, cb, workCh, resultCh, workers, kgRun, blkRun, secRun, otherRuns>>

\* one call per piece [a, b), each on a stream created at a
CtrPiece ==
    /\ ctrRun.pc = "pieces"
    /\ LET a == CtrPieceStart(ctrRun, ctrRun.k)
           b == CtrPieceEnd(ctrRun, ctrRun.k)
           slice == Slice(ctrRun.data, a - ctrRun.O, b - ctrRun.O)
       IN  ctrRun' = [ctrRun EXCEPT
                        !.pieces = @ \o XORKeyStream(
                                          NewCTRStream(ctrRun.key, ctrRun.iv, a), slice),
                        !.k = @ + 1,
                        !.pc = IF ctrRun.k = Cardinality(ctrRun.cuts) + 1
                               THEN "done" ELSE "pieces"]
    /\ UNCHANGED <<nca, cn, ws, cb, workCh, resultCh, workers, kgRun, blkRun, secRun, otherRuns>>

NextCtr == CtrWhole \/ CtrPiece
SpecCtr == InitCtr /\ [][NextCtr]_vars

CtrAligned(x) == x % AesBlockSize = 0

InitKeyGen ==
    /\ \E a \in Byte, b \in Byte :
         kgRun = [pc |-> "start", KeyGeneration |-> a, KeyGeneration2 |-> b,
                  unwrapGen |-> -1, ticketGen |-> -1]
    /\ ctrRun = Off
    /\ blkRun = Off
    /\ secRun = Off
    /\ PipelineOff
    /\ OtherRunsOff

\* ParseNcaHeader computes the generation of the key-area unwrap
ParseNcaHeaderKeyGen ==
    /\ kgRun.pc = "start"
    /\ kgRun' = [kgRun EXCEPT
                   !.unwrapGen = HeaderKeyGen(kgRun.KeyGeneration, kgRun.KeyGeneration2),
                   !.pc = "parsed"]
    /\ UNCHANGED <<nca, cn, ws, cb, workCh, resultCh, workers, ctrRun, blkRun, secRun, otherRuns>>

\* processNsp computes the generation of the ticket title-key decryption
ProcessNspKeyGen ==
    /\ kgRun.pc = "parsed"
    /\ kgRun' = [kgRun EXCEPT
                   !.ticketGen = NspKeyGen(kgRun.KeyGeneration, kgRun.KeyGeneration2),
                   !.pc = "done"]
    /\ UNCHANGED <<nca, cn, ws, cb, workCh, resultCh, workers, ctrRun, blkRun, secRun, otherRuns>>

NextKeyGen == ParseNcaHeaderKeyGen \/ ProcessNspKeyGen
SpecKeyGen == InitKeyGen /\ [][NextKeyGen]_vars

EffectiveKeyGen(a, b) == Max(Max(a, b) - 1, 0)

\* C10: for all byte values of key_generation and key_generation2, the
\* generation ParseNcaHeader uses for the key-area unwrap and the one
\* processNsp uses for the ticket title key both equal
\* max(max(key_generation, key_generation2) - 1, 0).
C10_EffectiveKeyGen ==
    /\ kgRun.pc \in {"parsed", "done"}
          => kgRun.unwrapGen = EffectiveKeyGen(kgRun.KeyGeneration, kgRun.KeyGeneration2)
    /\ kgRun.pc = "done"
          => kgRun.ticketGen = EffectiveKeyGen(kgRun.KeyGeneration, kgRun.KeyGeneration2)

\* C10 witness: (3, 5) gives 4 in both places.
C10_Witness ==
    /\ kgRun.pc = "done"
    /\ kgRun.KeyGeneration = 3 /\ kgRun.KeyGeneration2 = 5
    /\ kgRun.unwrapGen = 4 /\ kgRun.ticketGen = 4

(***************************************************************************)
(* Block partition runs: block count and the submit loop                   *)
(***************************************************************************)
MinBlockSizeEx == 14
MaxBlockSizeEx == 22

BlockDataSizes(B) ==
    {0, 1, B - 1, B, B + 1, 2 * B, 2 * B + 1, MaxBlocks * B - 1, MaxBlocks * B}

InitBlocks ==
    /\ \E e \in MinBlockSizeEx..MaxBlockSizeEx :
         \E d \in BlockDataSizes(2 ^ e) :
            blkRun = [pc |-> "count", totalSize |-> NcaFullHeaderSize + d,
                      blockSize |-> 2 ^ e, blockCount |-> 0, i |-> 0, items |-> <<>>]
    /\ ctrRun = Off
    /\ kgRun = Off
    /\ secRun = Off
    /\ PipelineOff
    /\ OtherRunsOff

\* CompressNca, step 3: the block count
BlkCount ==
    /\ blkRun.pc = "count"
    /\ blkRun' = [blkRun EXCEPT
                    !.blockCount = BlockCount(blkRun.totalSize, blkRun.blockSize),
                    !.pc = "submit"]
    /\ UNCHANGED <<nca, cn, ws, cb, workCh, resultCh, workers, ctrRun, kgRun, secRun, otherRuns>>

\* compressBlocks, one turn of the submit loop
BlkSubmit ==
    /\ blkRun.pc = "submit"
    /\ blkRun.i < blkRun.blockCount
    /\ blkRun' = [blkRun EXCEPT
                    !.items = Append(@, WorkItem(blkRun.i, blkRun.totalSize,
                                                 blkRun.blockSize)),
                    !.i = @ + 1]
    /\ UNCHANGED <<nca, cn, ws, cb, workCh, resultCh, workers, ctrRun, kgRun, secRun, otherRuns>>

\* compressBlocks, the loop ends: close(workCh)
BlkClose ==
    /\ blkRun.pc = "submit"
    /\ blkRun.i >= blkRun.blockCount
    /\ blkRun' = [blkRun EXCEPT !.pc = "done"]
    /\ UNCHANGED <<nca, cn, ws, cb, workCh, resultCh, workers, ctrRun, kgRun, secRun, otherRuns>>

NextBlocks == BlkCount \/ BlkSubmit \/ BlkClose
SpecBlocks == InitBlocks /\ [][NextBlocks]_vars

\* C5: for T >= 0x4000 and B = 2^e, e in [14, 22]: block_count is
\* ceil((T - 0x4000) / B), and the submitted work items are non-empty,
\* ascending, contiguous from 0x4000 (hence pairwise disjoint), each is
\* (0x4000 + i*B, min(B, T - offset)), and once all are submitted they end
\* exactly at T.
C5_BlockPartition ==
    blkRun.pc \in {"submit", "done"} =>
        LET T == blkRun.totalSize
            B == blkRun.blockSize
            n == blkRun.blockCount
            items == blkRun.items
        IN  /\ n >= 0
            /\ n * B >= T - NcaFullHeaderSize
            /\ (n - 1) * B < T - NcaFullHeaderSize
            /\ \A k \in 1..Len(items) :
                 /\ items[k].index = k - 1
                 /\ items[k].size > 0
                 /\ items[k].offset = NcaFullHeaderSize + (k - 1) * B
                 /\ items[k].size = Min(B, T - items[k].offset)
                 /\ items[k].offset =
                       (IF k = 1 THEN NcaFullHeaderSize
                        ELSE items[k - 1].offset + items[k - 1].size)
            /\ blkRun.pc = "done" =>
                 /\ Len(items) = n
                 /\ (IF n = 0 THEN T = NcaFullHeaderSize
                     ELSE items[n].offset + items[n].size = T)

\* C5 witness: three or more 1 MiB-exponent-20 blocks with a short last one.
C5_Witness ==
    /\ blkRun.pc = "done"
    /\ blkRun.blockSize = 2 ^ 20
    /\ blkRun.blockCount >= 3
    /\ Len(blkRun.items) = blkRun.blockCount
    /\ blkRun.items[blkRun.blockCount].size < blkRun.blockSize

(***************************************************************************)
(* The compression pipeline: CompressNca and compressBlocks                *)
(*                                                                         *)
(* The main goroutine runs CompressNca and, inside it, the submit loop of  *)
(* compressBlocks; the workers and the collector are goroutines of their   *)
(* own.  A step of a goroutine is the code between two channel or          *)
(* wait-group operations.                                                  *)
(***************************************************************************)
\* Largest runtime.NumCPU() of a run.
MaxWorkers == 2

\* blockSize := int64(1) << DefaultBlockSizeEx
BlockSize == 2 ^ DefaultBlockSizeEx

\* make(chan work, numWorkers*4)
ChanCap(numWorkers) == numWorkers * 4

pureRuns == <<ctrRun, kgRun, blkRun, secRun, otherRuns>>

TitleKey2 == [i \in 1..16 |-> 200 - i]

\* the AES-CTR keystream byte of a section at absolute offset p
SectionKeystreamAt(sec, p) ==
    LET stream == NewCTRStream(sec.CryptoKey, sec.CryptoCounter, p)
    IN  AesEncryptByte(stream.key, stream.counter, p % AesBlockSize)

\* AES-CTR at the absolute offset, applied to the bytes of
\* [from, from + Len(bytes)) that lie in sections of crypto type CTR / BKTR
RECURSIVE CtrAtOffsets(_, _, _)
CtrAtOffsets(bytes, from, sections) ==
    IF sections = <<>> THEN bytes
    ELSE LET sec == sections[1]
             applied ==
                [k \in 1..Len(bytes) |->
                    LET p == from + k - 1
                    IN  IF /\ sec.CryptoType \in {CryptoTypeCTR, CryptoTypeBKTR}
                           /\ p >= sec.Offset /\ p < sec.Offset + sec.Size
                        THEN Xor(bytes[k], SectionKeystreamAt(sec, p))
                        ELSE bytes[k]]
         IN  CtrAtOffsets(applied, from, Tail(sections))

\* Plaintext of the data region.  Block i is of kind (i + pattern) % 3:
\* a constant block (compressible), a block without repeated neighbours
\* (incompressible), or a block whose compressed form is exactly as long as
\* the block when the block is full.
PlainByte(p, pattern) ==
    LET i == (p - NcaFullHeaderSize) \div BlockSize
        k == (p - NcaFullHeaderSize) % BlockSize
        kind == (i + pattern) % 3
    IN  IF kind = 0 THEN 65
        ELSE IF kind = 1 THEN (k + 16 * i + 1) % 256
        ELSE IF k < BlockSize \div 2 - 3 THEN (IF k % 2 = 0 THEN 10 ELSE 20)
        ELSE 200

HeaderByte(p) == (5 * p + 1) % 256

\* if titleKey != nil { nca.Header.TitleKey = titleKey }
EffectiveHeader(header, titleKey) ==
    IF titleKey # Nil THEN [header EXCEPT !.TitleKey = titleKey] ELSE header

\* the bytes of an NCA file: the header prefix, then the plaintext, which is
\* AES-CTR encrypted at its absolute offsets inside the CTR / BKTR sections
NcaImage(totalSize, header, bktrBuckets, titleKey, pattern) ==
    [k \in 1..NcaFullHeaderSize |-> HeaderByte(k - 1)]
        \o CtrAtOffsets([k \in 1..(totalSize - NcaFullHeaderSize) |->
                            PlainByte(NcaFullHeaderSize + k - 1, pattern)],
                        NcaFullHeaderSize,
                        GetEncryptionSections(EffectiveHeader(header, titleKey),
                                              bktrBuckets))

MediaEntry(a, b) == [MediaStartOffset |-> a, MediaEndOffset |-> b]

CeilMedia(totalSize) == (totalSize + MediaSize - 1) \div MediaSize

TwoSectionHeader(e1, f1, e2, f2, titleKey) ==
    [SectionTables |-> <<e1, e2, Vacant, Vacant>>,
     FsHeaders |-> <<f1, f2, PlainFsHeader(3, CryptoTypeNone),
                     PlainFsHeader(4, CryptoTypeNone)>>,
     TitleKey |-> titleKey]

\* bktrArea holds the bytes of the file where the BKTR subsection index of
\* the first section lies (empty when the layout lists the buckets the
\* parser returns instead)
NcaLayout(header, bktrBuckets, titleKey) ==
    [header |-> header, bktrBuckets |-> bktrBuckets, titleKey |-> titleKey,
     bktrArea |-> Nil]

\* no section at all
LayoutNoSections ==
    NcaLayout(TwoSectionHeader(Vacant, PlainFsHeader(1, CryptoTypeNone),
                               Vacant, PlainFsHeader(2, CryptoTypeNone), Nil),
              << <<>>, <<>>, <<>>, <<>> >>, Nil)

\* one CTR section over the whole data region, the key from the key area
LayoutCtr(T) ==
    NcaLayout(TwoSectionHeader(MediaEntry(HeaderMediaUnits, CeilMedia(T)),
                               PlainFsHeader(1, CryptoTypeCTR),
                               Vacant, PlainFsHeader(2, CryptoTypeNone), TitleKey1),
              << <<>>, <<>>, <<>>, <<>> >>, Nil)

\* an unencrypted media unit, then a CTR section listed first in the table;
\* the title key comes from the ticket
LayoutPlainThenCtr(T) ==
    NcaLayout(TwoSectionHeader(
                  MediaEntry(HeaderMediaUnits + 1,
                             Max(CeilMedia(T), HeaderMediaUnits + 1)),
                  PlainFsHeader(1, CryptoTypeCTR),
                  MediaEntry(HeaderMediaUnits, HeaderMediaUnits + 1),
                  PlainFsHeader(2, CryptoTypeNone), Nil),
              << <<>>, <<>>, <<>>, <<>> >>, TitleKey2)

\* a BKTR section whose entries start on AES block boundaries
LayoutBktrAligned(T) ==
    NcaLayout(TwoSectionHeader(MediaEntry(HeaderMediaUnits, CeilMedia(T)),
                               BktrFsHeader(1),
                               Vacant, PlainFsHeader(2, CryptoTypeNone), TitleKey1),
              << << [Entries |-> <<BktrEntry(0, MediaSize, 7),
                                   BktrEntry(MediaSize, BlockSize, 258)>>] >>,
                 <<>>, <<>>, <<>> >>, Nil)

\* a BKTR section with an entry that starts 8 bytes into an AES block
LayoutBktrUnaligned(T) ==
    NcaLayout(TwoSectionHeader(MediaEntry(HeaderMediaUnits, CeilMedia(T)),
                               BktrFsHeader(1),
                               Vacant, PlainFsHeader(2, CryptoTypeNone), TitleKey1),
              << << [Entries |-> <<BktrEntry(0, 8, 7),
                                   BktrEntry(8, BlockSize, 258)>>] >>,
                 <<>>, <<>>, <<>> >>, Nil)

\* a CTR section that starts inside the header prefix
LayoutCtrFromHeader(T) ==
    NcaLayout(TwoSectionHeader(MediaEntry(1, CeilMedia(T)),
                               PlainFsHeader(1, CryptoTypeCTR),
                               Vacant, PlainFsHeader(2, CryptoTypeNone), TitleKey1),
              << <<>>, <<>>, <<>>, <<>> >>, Nil)

\* a BKTR section whose subsection index, two buckets of three entries,
\* carries the given bucket_count; the bytes of the index are held apart
\* from the data the blocks are cut from
LayoutBktrIndex(T, bucketCount) ==
    LET plain == EncodeBktrIndex(bucketCount, TwoBucketsOfThree)
        fsHeader == [CryptoType |-> CryptoTypeBKTR, CryptoCounter |-> FsCounter(1),
                     BktrSubsection |-> [present |-> TRUE, Offset |-> 0,
                                         Size |-> Len(plain)]]
        stream == NewCTRStream(TitleKey1, buildBaseIV(FsCounter(1)), NcaFullHeaderSize)
    IN  [header |-> TwoSectionHeader(MediaEntry(HeaderMediaUnits, CeilMedia(T)), fsHeader,
                                     Vacant, PlainFsHeader(2, CryptoTypeNone), TitleKey1),
         bktrBuckets |-> << <<>>, <<>>, <<>>, <<>> >>,
         titleKey |-> Nil,
         bktrArea |-> XORKeyStream(stream, plain)]

Layouts(T) ==
    {LayoutNoSections, LayoutCtr(T), LayoutPlainThenCtr(T), LayoutBktrAligned(T),
     LayoutBktrUnaligned(T), LayoutCtrFromHeader(T)}

\* sizes of the data region: none, a few bytes, one full block, full blocks
\* and a short last one, full blocks only
DataSizes ==
    {0, 5, BlockSize, (MaxBlocks - 1) * BlockSize + 7, MaxBlocks * BlockSize}

\* r.ReadAt(chunk, w.offset) returns all the bytes asked for
FullReads(T) ==
    [k \in 1..BlockCount(T, BlockSize) |-> WorkItem(k - 1, T, BlockSize).size]

\* ... except for one block, where it returns an error and no byte
FailedReads(T) ==
    {[FullReads(T) EXCEPT ![k] = 0] : k \in 1..BlockCount(T, BlockSize)}

\* ... for no block at all: every read returns an error and no byte
AllFailedReads(T) == [k \in 1..BlockCount(T, BlockSize) |-> 0]

\* ... except for one block, where it returns an error and all the bytes
\* but the last
ShortReads(T) ==
    {[FullReads(T) EXCEPT ![k] = @ - 1] : k \in 1..BlockCount(T, BlockSize)}

NoItem == [index |-> 0, offset |-> 0, size |-> 0]
IdleWorker == [pc |-> "recv", item |-> NoItem, data |-> Nil]

\* the bytes in the output file before CompressNca is called
PriorBytes(P0) == [k \in 1..P0 |-> 238]

StartOfRun(T, layout, pattern, readN, P0, numWorkers, parses, seekable) ==
    /\ nca = [totalSize |-> T,
              data |-> NcaImage(T, layout.header, layout.bktrBuckets,
                                layout.titleKey, pattern),
              header |-> layout.header,
              bktrBuckets |-> layout.bktrBuckets,
              bktrArea |-> layout.bktrArea,
              titleKey |-> layout.titleKey,
              readN |-> readN,
              parses |-> parses,
              seekable |-> seekable]
    /\ cn = [pc |-> "start", err |-> "", startPos |-> 0, sections |-> <<>>,
             blockCount |-> 0, sizeListOffset |-> 0, endPos |-> 0, n |-> 0]
    /\ ws = [buf |-> PriorBytes(P0), pos |-> P0]
    /\ cb = [numWorkers |-> numWorkers, i |-> 0, results |-> <<>>,
             workerErr |-> [set |-> FALSE, index |-> 0],
             workClosed |-> FALSE, resultClosed |-> FALSE, collector |-> "idle"]
    /\ workCh = <<>>
    /\ resultCh = <<>>
    /\ workers = <<>>

\* The runs: every worker count on a CTR image of full blocks, with full
\* reads, one failed read and only failed reads; behind one worker, every layout and both plaintext
\* patterns, short reads, a writer that is not at position 0, an NCA that
\* does not parse, a writer that cannot seek, more blocks than the channels
\* hold, and a BKTR section whose index has a bucket_count out of range.
Init ==
    /\ \/ \E T \in {NcaFullHeaderSize + d : d \in {0, 5, BlockSize, MaxBlocks * BlockSize}},
             numWorkers \in 1..MaxWorkers :
            \E readN \in {FullReads(T), AllFailedReads(T)} \cup FailedReads(T) :
               StartOfRun(T, LayoutCtr(T), 0, readN, 0, numWorkers, TRUE, TRUE)
       \/ \E T \in {NcaFullHeaderSize + d : d \in DataSizes}, pattern \in {0, 1} :
            \E layout \in Layouts(T) :
               StartOfRun(T, layout, pattern, FullReads(T), 0, 1, TRUE, TRUE)
       \/ \E T \in {NcaFullHeaderSize + d : d \in DataSizes} :
            \E readN \in ShortReads(T) :
               StartOfRun(T, LayoutCtr(T), 0, readN, 0, 1, TRUE, TRUE)
       \/ \E T \in {NcaFullHeaderSize + (MaxBlocks - 1) * BlockSize + 7} :
            \E layout \in {LayoutCtr(T), LayoutPlainThenCtr(T)} :
               StartOfRun(T, layout, 1, FullReads(T), 3, 1, TRUE, TRUE)
       \/ \E T \in {NcaFullHeaderSize + BlockSize},
             parses \in BOOLEAN, seekable \in BOOLEAN :
            /\ ~(parses /\ seekable)
            /\ StartOfRun(T, LayoutCtr(T), 0, FullReads(T), 0, 1, parses, seekable)
       \/ \E T \in {NcaFullHeaderSize + 2 * MaxBlocks * BlockSize} :
            \E readN \in {FullReads(T), [FullReads(T) EXCEPT ![1] = 0]} :
               StartOfRun(T, LayoutCtr(T), 0, readN, 0, 1, TRUE, TRUE)
       \/ \E T \in {NcaFullHeaderSize + BlockSize + 7},
             bucketCount \in {0, MaxBucketCount + 1, 200} :
            StartOfRun(T, LayoutBktrIndex(T, bucketCount), 1, FullReads(T), 0, 1,
                       TRUE, TRUE)
    /\ ctrRun = Off
    /\ kgRun = Off
    /\ blkRun = Off
    /\ secRun = Off
    /\ OtherRunsOff

\* what ParseBktrSubsectionBuckets returns to the planner for each section
\* table entry of the NCA
PlannerBuckets(header) ==
    IF nca.bktrArea = Nil THEN nca.bktrBuckets
    ELSE << BucketsOrNone(ParseBktrSubsectionBuckets(
                              nca.bktrArea,
                              header.SectionTables[1].MediaStartOffset * MediaSize,
                              header.FsHeaders[1].BktrSubsection, header.TitleKey,
                              buildBaseIV(header.FsHeaders[1].CryptoCounter))),
            <<>>, <<>>, <<>> >>

\* CompressNca: NewNCA(r) fails, or the writer is not an io.WriteSeeker
CompressNcaReject ==
    /\ cn.pc = "start"
    /\ ~nca.parses \/ ~nca.seekable
    /\ cn' = [cn EXCEPT !.pc = "failed",
                        !.err = IF ~nca.parses THEN "parse" ELSE "seek"]
    /\ UNCHANGED <<nca, ws, cb, workCh, resultCh, workers, pureRuns>>

\* CompressNca, steps 1 to 3 and the placeholder size table; then
\* compressBlocks up to its submit loop: results, the channels, the
\* collector and the workers
CompressNcaBegin ==
    /\ cn.pc = "start"
    /\ nca.parses /\ nca.seekable
    /\ LET header == EffectiveHeader(nca.header, nca.titleKey)
           startPos == ws.pos
           ws1 == WsWrite(ws, Slice(nca.data, 0, NcaFullHeaderSize))
           sections == GetEncryptionSections(header, PlannerBuckets(header))
           ws2 == WriteNczHeader(ws1, sections)
           dataSize == nca.totalSize - NcaFullHeaderSize
           blockCount == BlockCount(nca.totalSize, BlockSize)
           ws3 == WsWrite(ws2, EncodeBlockHeader(blockCount, dataSize))
           sizeListOffset == ws3.pos
           ws4 == WsWrite(ws3, Zeros(blockCount * 4))
       IN  /\ ws' = ws4
           /\ cn' = [cn EXCEPT !.pc = "submit", !.startPos = startPos,
                               !.sections = sections, !.blockCount = blockCount,
                               !.sizeListOffset = sizeListOffset]
           /\ cb' = [cb EXCEPT !.results = [k \in 1..blockCount |-> Nil],
                               !.collector = "run"]
           /\ workers' = [w \in 1..cb.numWorkers |-> IdleWorker]
    /\ UNCHANGED <<nca, workCh, resultCh, pureRuns>>

\* compressBlocks, "Submit work": workCh <- work{i, offset, size}
Submit ==
    /\ cn.pc = "submit"
    /\ cb.i < cn.blockCount
    /\ Len(workCh) < ChanCap(cb.numWorkers)
    /\ workCh' = Append(workCh, WorkItem(cb.i, nca.totalSize, BlockSize))
    /\ cb' = [cb EXCEPT !.i = @ + 1]
    /\ UNCHANGED <<nca, cn, ws, resultCh, workers, pureRuns>>

\* compressBlocks: close(workCh), then workerWg.Wait()
CloseWork ==
    /\ cn.pc = "submit"
    /\ cb.i >= cn.blockCount
    /\ cb' = [cb EXCEPT !.workClosed = TRUE]
    /\ cn' = [cn EXCEPT !.pc = "waitWorkers"]
    /\ UNCHANGED <<nca, ws, workCh, resultCh, workers, pureRuns>>

\* worker: for w := range workCh, an item is received
WorkerRecv(w) ==
    /\ workers[w].pc = "recv"
    /\ workCh # <<>>
    /\ workers' = [workers EXCEPT ![w] = [pc |-> "process", item |-> Head(workCh),
                                          data |-> Nil]]
    /\ workCh' = Tail(workCh)
    /\ UNCHANGED <<nca, cn, ws, cb, resultCh, pureRuns>>

\* worker: the range loop ends on the closed, empty channel; workerWg.Done()
WorkerExit(w) ==
    /\ workers[w].pc = "recv"
    /\ workCh = <<>>
    /\ cb.workClosed
    /\ workers' = [workers EXCEPT ![w] = [IdleWorker EXCEPT !.pc = "exit"]]
    /\ UNCHANGED <<nca, cn, ws, cb, workCh, resultCh, pureRuns>>

\* a worker that leaves with `return` after a failed read
AfterReadError_Return == [IdleWorker EXCEPT !.pc = "exit"]

\* worker, after a failed read: `continue`, the next item is waited for
AfterReadError == IdleWorker

\* worker: read, then either record the error and continue, or decrypt,
\* compress and choose the data to send
WorkerProcess(w) ==
    /\ workers[w].pc = "process"
    /\ LET item == workers[w].item
           n == nca.readN[item.index + 1]
       IN  IF n = 0
           THEN /\ cb' = [cb EXCEPT !.workerErr =
                            IF @.set THEN @ ELSE [set |-> TRUE, index |-> item.index]]
                /\ workers' = [workers EXCEPT ![w] = AfterReadError]
           ELSE /\ workers' = [workers EXCEPT ![w] =
                                 [pc |-> "send", item |-> item,
                                  data |-> EncodeChunk(ReadChunk(nca.data, item, n),
                                                       item, cn.sections)]]
                /\ cb' = cb
    /\ UNCHANGED <<nca, cn, ws, workCh, resultCh, pureRuns>>

\* worker: resultCh <- {w.index, data}
WorkerSend(w) ==
    /\ workers[w].pc = "send"
    /\ Len(resultCh) < ChanCap(cb.numWorkers)
    /\ resultCh' = Append(resultCh, [index |-> workers[w].item.index,
                                     data |-> workers[w].data])
    /\ workers' = [workers EXCEPT ![w] = IdleWorker]
    /\ UNCHANGED <<nca, cn, ws, cb, workCh, pureRuns>>

\* the result stored in the first free slot
StoreResult_ArrivalOrder(results, r) ==
    LET free == {k \in 1..Len(results) : results[k] = Nil}
    IN  [results EXCEPT ![CHOOSE k \in free : \A l \in free : k <= l] = r.data]

\* collector: results[r.index] = r.data
StoreResult(results, r) == [results EXCEPT ![r.index + 1] = r.data]

\* collector: for r := range resultCh, a result is received and stored
CollectorRecv ==
    /\ cb.collector = "run"
    /\ resultCh # <<>>
    /\ cb' = [cb EXCEPT !.results = StoreResult(@, Head(resultCh))]
    /\ resultCh' = Tail(resultCh)
    /\ UNCHANGED <<nca, cn, ws, workCh, workers, pureRuns>>

\* collector: the range loop ends on the closed, empty channel; collectWg.Done()
CollectorExit ==
    /\ cb.collector = "run"
    /\ resultCh = <<>>
    /\ cb.resultClosed
    /\ cb' = [cb EXCEPT !.collector = "done"]
    /\ UNCHANGED <<nca, cn, ws, workCh, resultCh, workers, pureRuns>>

\* compressBlocks: workerWg.Wait() returns; close(resultCh), collectWg.Wait()
CloseResults ==
    /\ cn.pc = "waitWorkers"
    /\ \A w \in 1..Len(workers) : workers[w].pc = "exit"
    /\ cb' = [cb EXCEPT !.resultClosed = TRUE]
    /\ cn' = [cn EXCEPT !.pc = "waitCollector"]
    /\ UNCHANGED <<nca, ws, workCh, resultCh, workers, pureRuns>>

\* compressBlocks returns nil, workerErr; CompressNca returns 0, err
CompressBlocksFail ==
    /\ cn.pc = "waitCollector"
    /\ cb.collector = "done"
    /\ cb.workerErr.set
    /\ cn' = [cn EXCEPT !.pc = "failed", !.err = "read"]
    /\ UNCHANGED <<nca, ws, cb, workCh, resultCh, workers, pureRuns>>

\* compressBlocks returns results; CompressNca, steps 5 and 6 and the return
CompressNcaFinish ==
    /\ cn.pc = "waitCollector"
    /\ cb.collector = "done"
    /\ ~cb.workerErr.set
    /\ LET compressedBlocks == cb.results
           ws5 == WriteBlocks(ws, compressedBlocks)
           compressedSizes == [k \in 1..cn.blockCount |-> Len(compressedBlocks[k])]
           endPos == ws5.pos
       IN  /\ ws' = WriteSizeTable(ws5, cn.sizeListOffset, compressedSizes)
           /\ cn' = [cn EXCEPT !.pc = "done", !.endPos = endPos,
                               !.n = endPos - cn.startPos]
    /\ UNCHANGED <<nca, cb, workCh, resultCh, workers, pureRuns>>

Next ==
    \/ CompressNcaReject
    \/ CompressNcaBegin
    \/ Submit
    \/ CloseWork
    \/ \E w \in 1..Len(workers) : WorkerRecv(w)
    \/ \E w \in 1..Len(workers) : WorkerProcess(w)
    \/ \E w \in 1..Len(workers) : WorkerSend(w)
    \/ \E w \in 1..Len(workers) : WorkerExit(w)
    \/ CollectorRecv
    \/ CollectorExit
    \/ CloseResults
    \/ CompressBlocksFail
    \/ CompressNcaFinish

Spec == Init /\ [][Next]_vars

(***************************************************************************)
(* Properties of the pipeline                                              *)
(***************************************************************************)
\* the work item of block i (0-based) and what the worker reads for it
ItemOf(i) == WorkItem(i, nca.totalSize, BlockSize)
BytesRead(i) == ReadChunk(nca.data, ItemOf(i), nca.readN[i + 1])

\* raw_i: the bytes read for block i after decryptChunk
RawOf(i) == decryptChunk(BytesRead(i), ItemOf(i).offset, cn.sections)

\* the encoding the keep-smaller rule asks for
SmallerOf(raw) ==
    LET zstd == ZstdCompress(raw)
    IN  IF Len(zstd) < Len(raw) THEN zstd ELSE raw

\* the output file read back
OutU(from, n) == FromLittleEndian(Slice(ws.buf, from, from + n))
OutSizeAt(i) == OutU(cn.sizeListOffset + 4 * i, 4)
BlocksStart == cn.sizeListOffset + 4 * cn.blockCount
RECURSIVE OutBlockStart(_)
OutBlockStart(i) ==
    IF i = 0 THEN BlocksStart ELSE OutBlockStart(i - 1) + OutSizeAt(i - 1)
OutBlock(i) == Slice(ws.buf, OutBlockStart(i), OutBlockStart(i) + OutSizeAt(i))

\* sizeof(NczSectionEntry): three u64, the u64 padding, key and counter
NczSectionEntrySize == 8 + 8 + 8 + 8 + 16 + 16

\* the NCZ stream layout of C2 with section entries of entrySize bytes:
\* three u64 first, key and counter last, zero bytes between
NczLayout(entrySize) ==
    LET P0 == cn.startPos
        sectionCount == Len(cn.sections)
        table == P0 + NcaFullHeaderSize + 16
        blockHeader == table + entrySize * sectionCount
    IN  /\ Slice(ws.buf, 0, P0) = PriorBytes(P0)
        /\ Slice(ws.buf, P0, P0 + NcaFullHeaderSize)
              = Slice(nca.data, 0, NcaFullHeaderSize)
        /\ Slice(ws.buf, P0 + NcaFullHeaderSize, P0 + NcaFullHeaderSize + 8)
              = MagicNCZSECTN
        /\ OutU(P0 + NcaFullHeaderSize + 8, 8) = sectionCount
        /\ cn.sections = GetEncryptionSections(
                             EffectiveHeader(nca.header, nca.titleKey), nca.bktrBuckets)
        /\ \A k \in 1..sectionCount :
             LET at == table + entrySize * (k - 1)
                 sec == cn.sections[k]
             IN  /\ OutU(at, 8) = sec.Offset
                 /\ OutU(at + 8, 8) = sec.Size
                 /\ OutU(at + 16, 8) = sec.CryptoType
                 /\ Slice(ws.buf, at + 24, at + entrySize - 32)
                       = Zeros(entrySize - 56)
                 /\ Slice(ws.buf, at + entrySize - 32, at + entrySize - 16)
                       = sec.CryptoKey
                 /\ Slice(ws.buf, at + entrySize - 16, at + entrySize)
                       = sec.CryptoCounter
        /\ Slice(ws.buf, blockHeader, blockHeader + 8) = MagicNCZBLOCK
        /\ Slice(ws.buf, blockHeader + 8, blockHeader + 12)
              = <<2, 1, 0, DefaultBlockSizeEx>>
        /\ OutU(blockHeader + 12, 4) = cn.blockCount
        /\ cn.blockCount = BlockCount(nca.totalSize, BlockSize)
        /\ OutU(blockHeader + 16, 8) = nca.totalSize - NcaFullHeaderSize
        /\ cn.sizeListOffset = blockHeader + 24
        /\ \A i \in 0..(cn.blockCount - 1) : OutSizeAt(i) = Len(cb.results[i + 1])
        /\ Slice(ws.buf, BlocksStart, Len(ws.buf)) = Concat(cb.results)
        /\ cn.endPos = Len(ws.buf)
        /\ cn.n = cn.endPos - P0
        /\ cn.n = NcaFullHeaderSize + 16 + entrySize * sectionCount + 24
                     + 4 * cn.blockCount
                     + SumSeq([k \in 1..cn.blockCount |-> Len(cb.results[k])])

\* C2 (as amended): on success, the bytes CompressNca writes from its
\* starting position P0 are, in this order and with nothing in between or
\* after: the source's header prefix verbatim; "NCZSECTN", the u64
\* section_count and section_count entries of 0x40 bytes (offset, size,
\* crypto_type, a zero u64 padding, key, counter); the 24-byte NCZBLOCK
\* header (version 2, type 1, unused 0, block_size_exp, block_count,
\* decompressed_size = T - header prefix); block_count u32 sizes; the
\* blocks.  The returned count is end - P0 = prefix + 16 + 0x40 *
\* section_count + 24 + 4 * block_count + the sum of the block lengths.
C2_NczLayout ==
    cn.pc = "done" => NczLayout(NczSectionEntrySize)

\* C2 (as claimed): the same with section entries of 0x38 bytes.
C2_NczLayoutEntries0x38 ==
    cn.pc = "done" => NczLayout(56)

\* C2 witness: a successful run that started at a non-zero position and
\* wrote two section entries and MaxBlocks blocks.
C2_Witness ==
    /\ cn.pc = "done"
    /\ cn.startPos > 0
    /\ Len(cn.sections) = 2
    /\ cn.blockCount = MaxBlocks
    /\ cn.n = Len(ws.buf) - cn.startPos
    /\ NczLayout(NczSectionEntrySize)

\* C3: after CompressNca succeeds, for every block i the u32 at
\* size_list_offset + 4*i is the number of bytes block i occupies in the
\* output; block i starts at size_list_offset + 4*block_count + the sum of
\* the sizes before it and holds the bytes compressBlocks returned for it
\* (the back-patch overwrote none of them); the blocks end at end, which is
\* the end of the file; and the writer's position is back at end.
C3_SizeTableBackPatch ==
    cn.pc = "done" =>
        /\ \A i \in 0..(cn.blockCount - 1) :
             /\ OutSizeAt(i) = Len(cb.results[i + 1])
             /\ OutBlockStart(i)
                   = cn.sizeListOffset + 4 * cn.blockCount
                        + SumSeq([k \in 1..i |-> Len(cb.results[k])])
             /\ OutBlock(i) = cb.results[i + 1]
        /\ OutBlockStart(cn.blockCount) = cn.endPos
        /\ cn.endPos = Len(ws.buf)
        /\ ws.pos = cn.endPos

\* C3 witness: a successful run whose size table holds two different
\* non-zero sizes.
C3_Witness ==
    /\ cn.pc = "done"
    /\ cn.blockCount >= 2
    /\ OutSizeAt(0) > 0
    /\ OutSizeAt(1) > 0
    /\ OutSizeAt(0) # OutSizeAt(1)
    /\ ws.pos = Len(ws.buf)

AllGoroutinesDone ==
    /\ \A w \in 1..Len(workers) : workers[w].pc = "exit"
    /\ cb.collector = "done"
    /\ workCh = <<>>
    /\ resultCh = <<>>

\* C4: in every interleaving of the workers and the collector, a result
\* stored in results[i] is the keep-smaller encoding of the decrypted bytes
\* read for block i (never those of another block); when CompressNca has
\* succeeded every worker and the collector had finished, every block has
\* its result, and the blocks stand in the output in index order, so the
\* output is a function of the input alone.
C4_ResultsByIndex ==
    /\ \A k \in 1..Len(cb.results) :
         cb.results[k] # Nil => cb.results[k] = SmallerOf(RawOf(k - 1))
    /\ cn.pc = "done" =>
         /\ AllGoroutinesDone
         /\ Len(cb.results) = cn.blockCount
         /\ \A k \in 1..cn.blockCount : cb.results[k] # Nil
         /\ Slice(ws.buf, BlocksStart, Len(ws.buf))
               = Concat([k \in 1..cn.blockCount |-> SmallerOf(RawOf(k - 1))])

\* C4 witness: two workers; block 1 is stored before block 0, whose result
\* is still on its way.
C4_Witness ==
    /\ Len(workers) = 2
    /\ cn.blockCount >= 2
    /\ cb.results[1] = Nil
    /\ cb.results[2] # Nil
    /\ cb.results[2] = SmallerOf(RawOf(1))
    /\ cb.results[2] # SmallerOf(RawOf(0))
    /\ \E w \in 1..2 : workers[w].pc = "send" /\ workers[w].item.index = 0

\* C6: for every block i, with raw_i the decrypted bytes the worker holds
\* for it: the emitted bytes are the zstd output iff len(zstd(raw_i)) <
\* len(raw_i), strictly; otherwise they are a copy of raw_i; the emitted
\* length never exceeds len(raw_i); and when raw_i is a full block that
\* does not compress, compressed_sizes[i] in the output is the block size.
C6_KeepSmaller ==
    /\ \A w \in 1..Len(workers) :
         workers[w].pc = "send" =>
            LET raw == RawOf(workers[w].item.index)
                zstd == ZstdCompress(raw)
            IN  /\ (workers[w].data = zstd) <=> (Len(zstd) < Len(raw))
                /\ ~(Len(zstd) < Len(raw)) => workers[w].data = raw
                /\ Len(workers[w].data) <= Len(raw)
    /\ cn.pc = "done" =>
         \A i \in 0..(cn.blockCount - 1) :
            LET raw == RawOf(i)
                zstd == ZstdCompress(raw)
            IN  /\ (OutBlock(i) = zstd) <=> (Len(zstd) < Len(raw))
                /\ ~(Len(zstd) < Len(raw)) => OutBlock(i) = raw
                /\ OutSizeAt(i) <= Len(raw)
                /\ (Len(raw) = BlockSize /\ Len(zstd) >= Len(raw))
                      => OutSizeAt(i) = BlockSize

\* C6 witness: a successful run over a CTR section with a block that is
\* emitted compressed, a full block whose zstd output is exactly as long as
\* the block and is emitted raw, and a full block whose zstd output is
\* longer; the raw blocks differ from the bytes of the file.
C6_Witness ==
    /\ cn.pc = "done"
    /\ cn.blockCount >= 3
    /\ \E i \in 0..(cn.blockCount - 1) :
         /\ Len(ZstdCompress(RawOf(i))) < Len(RawOf(i))
         /\ OutBlock(i) = ZstdCompress(RawOf(i))
    /\ \E i \in 0..(cn.blockCount - 1) :
         /\ Len(RawOf(i)) = BlockSize
         /\ Len(ZstdCompress(RawOf(i))) = BlockSize
         /\ OutBlock(i) = RawOf(i)
         /\ RawOf(i) # BytesRead(i)
    /\ \E i \in 0..(cn.blockCount - 1) :
         /\ Len(RawOf(i)) = BlockSize
         /\ Len(ZstdCompress(RawOf(i))) > BlockSize
         /\ OutSizeAt(i) = BlockSize
         /\ RawOf(i) # BytesRead(i)

(***************************************************************************)
(* The reference NCZ decompressor of the round-trip property.  It is not   *)
(* part of the repository; it is written from the description of the       *)
(* property: copy the header prefix, decode each block as a zstd frame     *)
(* when its recorded size is smaller than its plaintext length and take it *)
(* verbatim otherwise, then re-apply AES-CTR at the absolute offset inside *)
(* every stored section of crypto type CTR / BKTR.                         *)
(***************************************************************************)
DecodeSectionEntry(bytes) ==
    [Offset |-> FromLittleEndian(Slice(bytes, 0, 8)),
     Size |-> FromLittleEndian(Slice(bytes, 8, 16)),
     CryptoType |-> FromLittleEndian(Slice(bytes, 16, 24)),
     Padding |-> FromLittleEndian(Slice(bytes, 24, 32)),
     CryptoKey |-> Slice(bytes, 32, 48),
     CryptoCounter |-> Slice(bytes, 48, 64)]

RECURSIVE NczBlockStart(_, _, _)
NczBlockStart(ncz, sizeList, i) ==
    IF i = 0 THEN 0
    ELSE NczBlockStart(ncz, sizeList, i - 1)
            + FromLittleEndian(Slice(ncz, sizeList + 4 * (i - 1), sizeList + 4 * i))

NczDecompress(ncz) ==
    LET sectionCount ==
            FromLittleEndian(Slice(ncz, NcaFullHeaderSize + 8, NcaFullHeaderSize + 16))
        table == NcaFullHeaderSize + 16
        sections ==
            [k \in 1..sectionCount |->
                DecodeSectionEntry(Slice(ncz, table + NczSectionEntrySize * (k - 1),
                                         table + NczSectionEntrySize * k))]
        blockHeader == table + NczSectionEntrySize * sectionCount
        blockSize == 2 ^ ncz[blockHeader + 12]
        blockCount == FromLittleEndian(Slice(ncz, blockHeader + 12, blockHeader + 16))
        decompressedSize ==
            FromLittleEndian(Slice(ncz, blockHeader + 16, blockHeader + 24))
        sizeList == blockHeader + 24
        blocks == sizeList + 4 * blockCount
        Block(i) ==
            LET size == FromLittleEndian(Slice(ncz, sizeList + 4 * i, sizeList + 4 * i + 4))
                start == blocks + NczBlockStart(ncz, sizeList, i)
                stored == Slice(ncz, start, start + size)
                plainLength == Min(blockSize, decompressedSize - i * blockSize)
            IN  IF size < plainLength THEN ZstdDecompress(stored) ELSE stored
    IN  Slice(ncz, 0, NcaFullHeaderSize)
           \o CtrAtOffsets(Concat([k \in 1..blockCount |-> Block(k - 1)]),
                           NcaFullHeaderSize, sections)

\* the NCZ stream CompressNca wrote
NczWritten == Slice(ws.buf, cn.startPos, Len(ws.buf))

\* every read returned all the bytes asked for
ReadsAreFull ==
    \A i \in 0..(cn.blockCount - 1) : nca.readN[i + 1] = ItemOf(i).size

\* every section starts on an AES block boundary
SectionsAreAligned ==
    \A k \in 1..Len(cn.sections) : cn.sections[k].Offset % AesBlockSize = 0

\* C1 (as claimed): for every NCA that CompressNca compresses successfully,
\* the reference decompressor reproduces the source NCA byte for byte.
C1_RoundTrip ==
    cn.pc = "done" => NczDecompress(NczWritten) = nca.data

\* The round trip when no read is short and no section starts inside an
\* AES block.
RoundTripFullReadsAligned ==
    (cn.pc = "done" /\ ReadsAreFull /\ SectionsAreAligned)
        => NczDecompress(NczWritten) = nca.data

\* The round trip when no read is short.
RoundTripFullReads ==
    (cn.pc = "done" /\ ReadsAreFull) => NczDecompress(NczWritten) = nca.data

(***************************************************************************)
(* pkg/keys: DeriveKeys, UnwrapAesWrappedTitleKey, DecryptTitleKey         *)
(*                                                                         *)
(* The loaded keys are [aesKekGen, aesKeyGen, titleKekSource,              *)
(* keyAreaSources, masterKeys]; an absent key is the empty sequence.  The  *)
(* derived caches keyAreaKeys and titleKeks have one slot per generation   *)
(* 0..31.  A call returns [outcome, key], the outcome being "ok", "err"    *)
(* or "panic" (an index outside the cache).                                *)
(***************************************************************************)
\* var keyAreaKeys [32][3][]byte; var titleKeks [32][]byte
KeyGenerationSlots == 32

KeyGens == 0..(KeyGenerationSlots - 1)

\* block.Decrypt(out, in)[j] (j 0-based): the AES block cipher is a library
\* primitive; it is modelled as a fixed function of the key, of every byte
\* of the block and of the position within the block.
AesDecryptByte(key, block, j) ==
    (11 * Digest(key) + 5 * Digest(block) + 29 * j + 3) % 256

\* crypto.ECBDecrypt(data, key)
ECBDecrypt(data, key) ==
    IF Len(key) \notin {16, 24, 32} THEN [err |-> TRUE, out |-> Nil]
    ELSE IF Len(data) % AesBlockSize # 0 THEN [err |-> TRUE, out |-> Nil]
    ELSE [err |-> FALSE,
          out |-> [k \in 1..Len(data) |->
                     LET b == (k - 1) \div AesBlockSize
                     IN  AesDecryptByte(key,
                                        Slice(data, b * AesBlockSize,
                                              (b + 1) * AesBlockSize),
                                        (k - 1) % AesBlockSize)]]

\* keys.GenerateKek(src, masterKey, kekSeed, keySeed)
GenerateKek(src, masterKey, kekSeed, keySeed) ==
    LET kek == ECBDecrypt(kekSeed, masterKey)
        srcKek == ECBDecrypt(src, kek.out)
    IN  IF kek.err THEN kek
        ELSE IF srcKek.err THEN srcKek
        ELSE IF keySeed # Nil THEN ECBDecrypt(keySeed, srcKek.out)
        ELSE srcKek

NoDerivedKeys ==
    [titleKeks |-> [i \in KeyGens |-> Nil],
     keyAreaKeys |-> [i \in KeyGens |-> <<Nil, Nil, Nil>>]]

\* keys.DeriveKeys()
DeriveKeys(keys, cache) ==
    IF keys.aesKekGen = Nil \/ keys.aesKeyGen = Nil THEN cache
    ELSE [titleKeks |->
            [i \in KeyGens |->
                LET tk == ECBDecrypt(keys.titleKekSource, keys.masterKeys[i])
                IN  IF keys.masterKeys[i] # Nil /\ keys.titleKekSource # Nil /\ ~tk.err
                    THEN tk.out ELSE cache.titleKeks[i]],
          keyAreaKeys |->
            [i \in KeyGens |->
                [typeIdx \in 1..3 |->
                    LET kak == GenerateKek(keys.keyAreaSources[typeIdx],
                                           keys.masterKeys[i],
                                           keys.aesKekGen, keys.aesKeyGen)
                    IN  IF /\ keys.masterKeys[i] # Nil
                           /\ keys.keyAreaSources[typeIdx] # Nil /\ ~kak.err
                        THEN kak.out ELSE cache.keyAreaKeys[i][typeIdx]]]]

\* the result of a call: a key, an error value, or a run-time panic
CallOk(key) == [outcome |-> "ok", key |-> key]
CallErr == [outcome |-> "err", key |-> Nil]
CallPanic == [outcome |-> "panic", key |-> Nil]
NotCalled == [outcome |-> "none", key |-> Nil]

\* keys.UnwrapAesWrappedTitleKey(wrappedKey, keyGen)
UnwrapAesWrappedTitleKey(cache, wrappedKey, keyGen) ==
    IF keyGen \notin KeyGens THEN CallPanic
    ELSE LET kak == cache.keyAreaKeys[keyGen][1]
             dec == ECBDecrypt(wrappedKey, kak)
         IN  IF kak = Nil THEN CallErr
             ELSE IF dec.err THEN CallErr ELSE CallOk(dec.out)

\* keys.DecryptTitleKey(encryptedKey, keyGen)
DecryptTitleKey(cache, encryptedKey, keyGen) ==
    IF keyGen \notin KeyGens THEN CallPanic
    ELSE LET kek == cache.titleKeks[keyGen]
             dec == ECBDecrypt(encryptedKey, kek)
         IN  IF kek = Nil THEN CallErr
             ELSE IF dec.err THEN CallErr ELSE CallOk(dec.out)

(***************************************************************************)
(* Key runs: DeriveKeys on a set of loaded keys, then ParseNcaHeader's     *)
(* key-area unwrap and processNsp's ticket decryption for a header with    *)
(* the two key generation bytes                                            *)
(***************************************************************************)
KeyBytes(seed) == [i \in 1..16 |-> (16 * seed + i) % 256]

\* master keys loaded: none; generation 0; 0 and 4; all; the last one;
\* generation 0 and a generation 2 key of 8 bytes
MasterKeyChoices ==
    { [i \in KeyGens |-> Nil],
      [i \in KeyGens |-> IF i = 0 THEN KeyBytes(32) ELSE Nil],
      [i \in KeyGens |-> IF i \in {0, 4} THEN KeyBytes(32 + i) ELSE Nil],
      [i \in KeyGens |-> KeyBytes(32 + i)],
      [i \in KeyGens |-> IF i = KeyGenerationSlots - 1 THEN KeyBytes(32 + i) ELSE Nil],
      [i \in KeyGens |-> IF i = 0 THEN KeyBytes(32)
                         ELSE IF i = 2 THEN SubSeq(KeyBytes(34), 1, 8) ELSE Nil] }

InitKeys ==
    /\ \E aesKekGen \in {Nil, KeyBytes(1)}, aesKeyGen \in {Nil, KeyBytes(2)},
          titleKekSource \in {Nil, KeyBytes(3)}, appSource \in {Nil, KeyBytes(4)},
          masterKeys \in MasterKeyChoices,
          a \in {0, 1, 2, 3, 5, 32, 33, 34, 255}, b \in {0, 3, 40} :
         keyRun = [pc |-> "loaded",
                   keys |-> [aesKekGen |-> aesKekGen, aesKeyGen |-> aesKeyGen,
                             titleKekSource |-> titleKekSource,
                             keyAreaSources |-> <<appSource, KeyBytes(5), Nil>>,
                             masterKeys |-> masterKeys],
                   cache |-> NoDerivedKeys,
                   KeyGeneration |-> a, KeyGeneration2 |-> b,
                   KeyArea |-> [i \in 1..64 |-> (3 * i + 7) % 256],
                   ticketKey |-> KeyBytes(9),
                   unwrap |-> NotCalled, headerReturned |-> FALSE, TitleKey |-> Nil,
                   ticket |-> NotCalled]
    /\ PipelineOff
    /\ ctrRun = Off /\ kgRun = Off /\ blkRun = Off /\ secRun = Off
    /\ bktrRun = Off /\ decRun = Off /\ nspRun = Off

\* main: keys.DeriveKeys() after the keys are loaded
DeriveKeysStep ==
    /\ keyRun.pc = "loaded"
    /\ keyRun' = [keyRun EXCEPT !.cache = DeriveKeys(keyRun.keys, keyRun.cache),
                                !.pc = "derived"]
    /\ UNCHANGED <<nca, cn, ws, cb, workCh, resultCh, workers,
                   ctrRun, kgRun, blkRun, secRun, bktrRun, decRun, nspRun>>

\* ParseNcaHeader, "Get Title Key": the unwrap of KeyArea[0x20:0x30]; on an
\* error the header is returned without a title key, on a panic the call
\* never returns
ParseNcaHeaderUnwrap ==
    /\ keyRun.pc = "derived"
    /\ LET keyGen == HeaderKeyGen(keyRun.KeyGeneration, keyRun.KeyGeneration2)
           res == UnwrapAesWrappedTitleKey(keyRun.cache,
                                           Slice(keyRun.KeyArea, 32, 48), keyGen)
       IN  keyRun' = [keyRun EXCEPT
                        !.unwrap = res,
                        !.headerReturned = (res.outcome # "panic"),
                        !.TitleKey = IF res.outcome = "ok" THEN res.key ELSE Nil,
                        !.pc = IF res.outcome = "panic" THEN "panic" ELSE "parsed"]
    /\ UNCHANGED <<nca, cn, ws, cb, workCh, resultCh, workers,
                   ctrRun, kgRun, blkRun, secRun, bktrRun, decRun, nspRun>>

\* processNsp, step 1: the ticket's title key decrypted with the generation
\* of the first NCA
ProcessNspTicket ==
    /\ keyRun.pc = "parsed"
    /\ LET keyGen == NspKeyGen(keyRun.KeyGeneration, keyRun.KeyGeneration2)
           res == DecryptTitleKey(keyRun.cache, keyRun.ticketKey, keyGen)
       IN  keyRun' = [keyRun EXCEPT
                        !.ticket = res,
                        !.pc = IF res.outcome = "panic" THEN "panic" ELSE "done"]
    /\ UNCHANGED <<nca, cn, ws, cb, workCh, resultCh, workers,
                   ctrRun, kgRun, blkRun, secRun, bktrRun, decRun, nspRun>>

NextKeys == DeriveKeysStep \/ ParseNcaHeaderUnwrap \/ ProcessNspTicket
SpecKeys == InitKeys /\ [][NextKeys]_vars

\* the generation ParseNcaHeader passes for the header of the run
RunKeyGen == HeaderKeyGen(keyRun.KeyGeneration, keyRun.KeyGeneration2)

\* the application key-area key of a generation is absent
KakAbsent(keyGen) ==
    keyGen \notin KeyGens \/ keyRun.cache.keyAreaKeys[keyGen][1] = Nil

\* C11 (as claimed): for every generation ParseNcaHeader can pass, when the
\* application key-area key of that generation is absent the unwrap returns
\* an error value (KeyNotDerived), it does not crash, and ParseNcaHeader
\* returns a header with title_key unset.
C11_UnwrapAbsentKey ==
    (keyRun.pc \in {"parsed", "panic", "done"} /\ keyRun.ticket = NotCalled
        /\ KakAbsent(RunKeyGen))
        => /\ keyRun.unwrap = CallErr
           /\ keyRun.headerReturned
           /\ keyRun.TitleKey = Nil

\* The same for the generations that have a slot in the cache.
UnwrapAbsentKeyInCache ==
    (keyRun.pc \in {"parsed", "panic", "done"} /\ RunKeyGen \in KeyGens
        /\ KakAbsent(RunKeyGen))
        => /\ keyRun.unwrap = CallErr
           /\ keyRun.headerReturned
           /\ keyRun.TitleKey = Nil

\* C19 (as claimed): after DeriveKeys, for every generation i in [0, 32)
\* whose master key and the titlekek_source are loaded, title_kek[i] is
\* ECB_Decrypt(titlekek_source, master_key_i), whichever other key sources
\* are present or absent, and DecryptTitleKey for that generation succeeds.
C19_TitleKeksDerived ==
    keyRun.pc = "derived" =>
        \A i \in KeyGens :
            (keyRun.keys.masterKeys[i] # Nil /\ keyRun.keys.titleKekSource # Nil)
                => /\ keyRun.cache.titleKeks[i]
                         = ECBDecrypt(keyRun.keys.titleKekSource,
                                      keyRun.keys.masterKeys[i]).out
                   /\ keyRun.cache.titleKeks[i] # Nil
                   /\ DecryptTitleKey(keyRun.cache, keyRun.ticketKey, i).outcome = "ok"

\* The same when both generation sources are loaded and the master keys
\* are AES keys.
TitleKeksDerivedWithSources ==
    (keyRun.pc = "derived" /\ keyRun.keys.aesKekGen # Nil /\ keyRun.keys.aesKeyGen # Nil)
        => \A i \in KeyGens :
              (/\ keyRun.keys.masterKeys[i] # Nil
               /\ Len(keyRun.keys.masterKeys[i]) \in {16, 24, 32}
               /\ keyRun.keys.titleKekSource # Nil)
                => /\ keyRun.cache.titleKeks[i]
                         = ECBDecrypt(keyRun.keys.titleKekSource,
                                      keyRun.keys.masterKeys[i]).out
                   /\ DecryptTitleKey(keyRun.cache, keyRun.ticketKey, i).outcome = "ok"

(***************************************************************************)
(* BKTR runs: GetEncryptionSections on an NCA whose first section table    *)
(* entry is a BKTR section with a subsection index in the file             *)
(***************************************************************************)
\* the bucket lists of the runs: two buckets of three entries; an entry of
\* size zero; one entry; a second bucket, and a first bucket, whose entry
\* count is above 0xFFFF; a bucket that announces more entries than follow;
\* a second bucket that lies before the first
IndexShapes ==
    { TwoBucketsOfThree,
      << IndexBucket(3, 96, <<IndexEntry(0, 7), IndexEntry(32, 8), IndexEntry(32, 9)>>) >>,
      << IndexBucket(1, 96, <<IndexEntry(0, 7)>>) >>,
      << IndexBucket(2, 32, <<IndexEntry(0, 7), IndexEntry(16, 8)>>),
         IndexBucket(MaxEntryCount + 1, 96, <<IndexEntry(32, 9)>>) >>,
      << IndexBucket(MaxEntryCount + 1, 96, <<IndexEntry(0, 7)>>) >>,
      << IndexBucket(MaxEntryCount, 96, <<IndexEntry(0, 7), IndexEntry(16, 8)>>) >>,
      << IndexBucket(1, 96, <<IndexEntry(48, 7)>>),
         IndexBucket(1, 48, <<IndexEntry(0, 8)>>) >> }

\* the media units of the BKTR section: its entries end at byte 96 of it
BktrSectionStart == HeaderMediaUnits
BktrSectionMedia == 96 \div MediaSize

InitBktr ==
    /\ \E shape \in IndexShapes, titleKey \in {Nil, TitleKey1},
          gap \in {0, 1}, offset \in {0, 16}, fileCut \in {0, 16} :
         \E bucketCount \in {0, Len(shape), Len(shape) + 1,
                             MaxBucketCount, MaxBucketCount + 1, 200} :
           LET plain == EncodeBktrIndex(bucketCount, shape)
               sectionOffset == BktrSectionStart * MediaSize
               stream == NewCTRStream(TitleKey1, buildBaseIV(FsCounter(1)),
                                      sectionOffset + offset)
               stored == XORKeyStream(stream, plain)
           IN  \E size \in {0, 8, 16, Len(plain) - 24, Len(plain) - 16,
                            Len(plain) - 8, Len(plain)} :
                 \* the runs without a title key, with a short file or with
                 \* the index at the section start use the first shape whole
                 /\ (titleKey = Nil \/ fileCut # 0 \/ offset = 0)
                       => (shape = TwoBucketsOfThree /\ size = Len(plain) /\ gap = 1)
                 /\ bktrRun =
                    [pc |-> "plan",
                     header |-> TwoSectionHeader(
                                   MediaEntry(BktrSectionStart,
                                              BktrSectionStart + BktrSectionMedia + gap),
                                   [CryptoType |-> CryptoTypeBKTR,
                                    CryptoCounter |-> FsCounter(1),
                                    BktrSubsection |-> [present |-> TRUE,
                                                        Offset |-> offset,
                                                        Size |-> size]],
                                   Vacant, PlainFsHeader(2, CryptoTypeNone), titleKey),
                     \* the file from the index on; it may end fileCut bytes
                     \* before the index does
                     area |-> Slice(stored, 0, Len(stored) - fileCut),
                     \* the decrypted index, the value of its bucket_count
                     \* field and the buckets written in it
                     index |-> plain,
                     bucketCount |-> bucketCount,
                     shape |-> shape,
                     parsed |-> [err |-> FALSE, buckets |-> <<>>],
                     emitted |-> <<>>,
                     sections |-> <<>>]
    /\ PipelineOff
    /\ ctrRun = Off /\ kgRun = Off /\ blkRun = Off /\ secRun = Off
    /\ keyRun = Off /\ decRun = Off /\ nspRun = Off

\* CompressNca, step 2: nca.GetEncryptionSections(), which for the BKTR
\* entry calls parseBktrSections and, in it, ParseBktrSubsectionBuckets
PlanBktr ==
    /\ bktrRun.pc = "plan"
    /\ \E parsed \in {ParseBktrSubsectionBuckets(
                         bktrRun.area,
                         bktrRun.header.SectionTables[1].MediaStartOffset * MediaSize,
                         bktrRun.header.FsHeaders[1].BktrSubsection,
                         bktrRun.header.TitleKey,
                         buildBaseIV(bktrRun.header.FsHeaders[1].CryptoCounter))} :
         bktrRun' = [bktrRun EXCEPT
                       !.parsed = parsed,
                       \* what the loop appends for the BKTR entry
                       !.emitted = EntrySections(bktrRun.header,
                                                 <<BucketsOrNone(parsed), <<>>, <<>>, <<>> >>,
                                                 1),
                       !.sections = GetEncryptionSections(
                                       bktrRun.header,
                                       <<BucketsOrNone(parsed), <<>>, <<>>, <<>> >>),
                       !.pc = "planned"]
    /\ UNCHANGED <<nca, cn, ws, cb, workCh, resultCh, workers,
                   ctrRun, kgRun, blkRun, secRun, keyRun, decRun, nspRun>>

NextBktr == PlanBktr
SpecBktr == InitBktr /\ [][NextBktr]_vars

\* the BKTR section of the run and what the planner is given for it
BktrFs == bktrRun.header.FsHeaders[1]
BktrSectionOffset == bktrRun.header.SectionTables[1].MediaStartOffset * MediaSize
BktrSectionEnd == bktrRun.header.SectionTables[1].MediaEndOffset * MediaSize
BktrBaseIV == buildBaseIV(BktrFs.CryptoCounter)

\* the index was read and decrypted: there is a title key and the file
\* holds the bytes the header announces
IndexDecrypted ==
    /\ bktrRun.header.TitleKey # Nil
    /\ BktrFs.BktrSubsection.Size >= 16
    /\ BktrFs.BktrSubsection.Size <= Len(bktrRun.area)

\* the single section over the whole range, with the FS header's crypto type
FallbackSection ==
    NczSectionEntry(BktrSectionOffset, BktrSectionEnd - BktrSectionOffset,
                    BktrFs.CryptoType, bktrRun.header.TitleKey, BktrBaseIV)

\* C16 (as claimed): when the index holds a format violation (a bucket
\* whose entry count is above 0xFFFF, or data that ends before bucket_count
\* buckets and their entries are read), no bucket is returned, the planner
\* emits the single-section fallback, and no error is raised.
C16_ViolationMeansNoBktr ==
    (/\ bktrRun.pc = "planned"
     /\ IndexDecrypted
     /\ bktrRun.bucketCount \in 1..MaxBucketCount
     /\ BktrFs.BktrSubsection.Size >= BktrIndexHeaderSize
     /\ ~BucketsComplete(Slice(bktrRun.index, 0, BktrFs.BktrSubsection.Size),
                         BktrIndexHeaderSize, 0, bktrRun.bucketCount))
        => /\ ~bktrRun.parsed.err
           /\ bktrRun.parsed.buckets = <<>>
           /\ bktrRun.sections = <<FallbackSection>>

\* A violation never raises an error, whatever list it leaves.
ViolationRaisesNoError ==
    (bktrRun.pc = "planned" /\ IndexDecrypted) => ~bktrRun.parsed.err

\* C12: when the decrypted index has a bucket_count outside [1, 100], the
\* parser returns no bucket and no error, and the planner emits exactly one
\* section [section_offset, section_end) with the FS header's crypto type
\* (BKTR) and counter base_iv.
BadBucketCountFallsBack ==
    (/\ bktrRun.pc = "planned"
     /\ IndexDecrypted
     /\ bktrRun.bucketCount \notin 1..MaxBucketCount)
        => /\ ~bktrRun.parsed.err
           /\ bktrRun.parsed.buckets = <<>>
           /\ bktrRun.sections = <<FallbackSection>>
           /\ bktrRun.sections[1].CryptoType = CryptoTypeBKTR
           /\ bktrRun.sections[1].CryptoCounter = BktrBaseIV

\* the part of the index the header's size field covers holds a violation
IndexViolation ==
    /\ IndexDecrypted
    /\ bktrRun.bucketCount \in 1..MaxBucketCount
    /\ BktrFs.BktrSubsection.Size >= BktrIndexHeaderSize
    /\ ~BucketsComplete(Slice(bktrRun.index, 0, BktrFs.BktrSubsection.Size),
                        BktrIndexHeaderSize, 0, bktrRun.bucketCount)

\* A second bucket with an entry count above 0xFFFF leaves the first bucket
\* in the list, and the planner fans its entries out.
PartialListAfterViolation ==
    /\ bktrRun.pc = "planned"
    /\ IndexViolation
    /\ Len(bktrRun.shape) = 2
    /\ bktrRun.shape[2].EntryCount > MaxEntryCount
    /\ Len(bktrRun.parsed.buckets) = 1
    /\ Len(bktrRun.sections) = 3
    /\ \A k \in 1..3 : bktrRun.sections[k].CryptoType = CryptoTypeCTR

\* the decrypted bucket_count field of the index of the pipeline's NCA
NcaBucketCount ==
    Uint32At(XORKeyStream(NewCTRStream(TitleKey1, buildBaseIV(FsCounter(1)),
                                       NcaFullHeaderSize),
                          nca.bktrArea), 4)

\* the NCA of the run has a BKTR section whose index has a bucket_count
\* outside [1, 100]
BadBucketCount ==
    /\ cn.pc # "off"
    /\ nca.bktrArea # Nil
    /\ NcaBucketCount \notin 1..MaxBucketCount

NcaPlannedHeader == EffectiveHeader(nca.header, nca.titleKey)

\* C12: if the decrypted BKTR subsection index has a bucket_count outside
\* [1, 100], ParseBktrSubsectionBuckets yields no bucket and no error,
\* GetEncryptionSections emits for that section table entry exactly one
\* section [section_offset, section_end) with the FS header's crypto type
\* (BKTR) and counter base_iv, and CompressNca does not fail: when it
\* returns, it returns the size of the stream it wrote.
C12_BadBucketCountFallback ==
    BadBucketCount =>
        LET fs == NcaPlannedHeader.FsHeaders[1]
            entry == NcaPlannedHeader.SectionTables[1]
            baseIV == buildBaseIV(fs.CryptoCounter)
            parsed == ParseBktrSubsectionBuckets(nca.bktrArea,
                                                 entry.MediaStartOffset * MediaSize,
                                                 fs.BktrSubsection,
                                                 NcaPlannedHeader.TitleKey, baseIV)
        IN  /\ parsed = [err |-> FALSE, buckets |-> <<>>]
            /\ cn.pc # "failed"
            /\ cn.pc # "start" =>
                  cn.sections
                     = <<NczSectionEntry(entry.MediaStartOffset * MediaSize,
                                         (entry.MediaEndOffset - entry.MediaStartOffset)
                                            * MediaSize,
                                         CryptoTypeBKTR, NcaPlannedHeader.TitleKey, baseIV)>>
            /\ cn.pc = "done" => (cn.err = "" /\ cn.n = Len(ws.buf) /\ cn.n > NcaFullHeaderSize)

\* C12 witness: CompressNca has returned for an NCA whose index has
\* bucket_count 200.
C12_Witness ==
    /\ BadBucketCount
    /\ NcaBucketCount = 200
    /\ cn.pc = "done"
    /\ cn.err = ""
    /\ Len(cn.sections) = 1
    /\ cn.sections[1].CryptoType = CryptoTypeBKTR

\* base_iv with bytes [4..8) replaced by the big-endian ctr seed
SeededCounter(baseIV, ctr) ==
    [i \in 1..16 |->
        IF i = 5 THEN (ctr \div 16777216) % 256
        ELSE IF i = 6 THEN (ctr \div 65536) % 256
        ELSE IF i = 7 THEN (ctr \div 256) % 256
        ELSE IF i = 8 THEN ctr % 256
        ELSE baseIV[i]]

\* the largest end of the entries of non-zero size (0 without any)
RECURSIVE LastEnd(_, _)
LastEnd(es, sectionOffset) ==
    IF es = <<>> THEN 0
    ELSE Max(sectionOffset + es[1].VirtualOffset + es[1].Size,
             LastEnd(Tail(es), sectionOffset))

BktrWithoutBuckets(i) ==
    /\ ~IsVacant(NcaPlannedHeader.SectionTables[i])
    /\ NcaPlannedHeader.FsHeaders[i].CryptoType = CryptoTypeBKTR
    /\ PlannerBuckets(NcaPlannedHeader)[i] = <<>>

\* C17 (as amended): a section of crypto_type BKTR (4) is handed to the
\* block compressor only as the single-section fallback of a BKTR section
\* table entry whose subsection index gives no bucket, and then it spans
\* that entry's whole range; every BKTR section table entry whose index
\* parses into buckets is fanned out to sections of crypto_type CTR (3).
C17_BktrOnlyAsFallback ==
    cn.pc \notin {"off", "start", "failed"} =>
        \A k \in 1..Len(cn.sections) :
            cn.sections[k].CryptoType = CryptoTypeBKTR =>
                \E i \in 1..4 :
                    /\ BktrWithoutBuckets(i)
                    /\ cn.sections[k].Offset
                          = NcaPlannedHeader.SectionTables[i].MediaStartOffset * MediaSize
                    /\ cn.sections[k].Offset + cn.sections[k].Size
                          = NcaPlannedHeader.SectionTables[i].MediaEndOffset * MediaSize

\* C17 witness: the blocks of an NCA whose BKTR section has buckets were
\* compressed with a section list of CTR sections only, a tail among them.
C17_Witness ==
    /\ cn.pc = "done"
    /\ NcaPlannedHeader.FsHeaders[1].CryptoType = CryptoTypeBKTR
    /\ PlannerBuckets(NcaPlannedHeader)[1] # <<>>
    /\ Len(cn.sections) = 3
    /\ \A k \in 1..3 : cn.sections[k].CryptoType = CryptoTypeCTR

\* C17 (as claimed): no section handed to the block compressor carries
\* crypto_type BKTR (4).
C17_NoBktrSection ==
    cn.pc \notin {"off", "start", "failed"} =>
        \A k \in 1..Len(cn.sections) : cn.sections[k].CryptoType # CryptoTypeBKTR

(***************************************************************************)
(* decryptChunk runs: one call on an enumerated chunk and section list     *)
(***************************************************************************)
\* Largest number of sections in the list of a run.
MaxSections == 2

\* sections at and around the chunk, of every crypto type, empty ones too
ChunkSectionChoices ==
    { NczSectionEntry(offset, size, cryptoType, TitleKey1, buildBaseIV(FsCounter(1))) :
        offset \in {32, 40, 56}, size \in {0, 8, 24},
        cryptoType \in {CryptoTypeNone, CryptoTypeXTS, CryptoTypeCTR, CryptoTypeBKTR} }

RECURSIVE SectionLists(_)
SectionLists(n) ==
    IF n = 0 THEN {<<>>}
    ELSE SectionLists(n - 1)
            \cup {Append(l, sec) : l \in {x \in SectionLists(n - 1) : Len(x) = n - 1},
                                   sec \in ChunkSectionChoices}

InitDec ==
    /\ \E len \in {0, 24, 40}, chunkOffset \in {32, 44}, sections \in SectionLists(MaxSections) :
         decRun = [pc |-> "read",
                   chunk |-> [k \in 1..len |-> (7 * k + chunkOffset) % 256],
                   chunkOffset |-> chunkOffset,
                   sections |-> sections,
                   out |-> <<>>,
                   sectionsAfter |-> <<>>]
    /\ PipelineOff
    /\ ctrRun = Off /\ kgRun = Off /\ blkRun = Off /\ secRun = Off
    /\ keyRun = Off /\ bktrRun = Off /\ nspRun = Off

\* compressBlocks, worker: decryptChunk(chunk, w.offset, sections); the
\* chunk is changed in place, the sections are read through copies
DecryptChunkCall ==
    /\ decRun.pc = "read"
    /\ decRun' = [decRun EXCEPT
                    !.out = decryptChunk(decRun.chunk, decRun.chunkOffset, decRun.sections),
                    !.sectionsAfter = decRun.sections,
                    !.pc = "decrypted"]
    /\ UNCHANGED <<nca, cn, ws, cb, workCh, resultCh, workers,
                   ctrRun, kgRun, blkRun, secRun, keyRun, bktrRun, nspRun>>

NextDec == DecryptChunkCall
SpecDec == InitDec /\ [][NextDec]_vars

\* the absolute offset p lies inside a section of crypto type CTR or BKTR
InDecryptedSection(p, sections) ==
    \E k \in 1..Len(sections) :
        /\ sections[k].CryptoType \in {CryptoTypeCTR, CryptoTypeBKTR}
        /\ p >= sections[k].Offset
        /\ p < sections[k].Offset + sections[k].Size

\* C18: decryptChunk changes a byte of the block buffer only if the byte's
\* absolute offset lies inside a section of crypto type CTR (3) or BKTR
\* (4); bytes inside sections of type None (1) or XTS (2) and bytes covered
\* by no section are left as read; the buffer keeps its length and the
\* section list is not modified.
C18_DecryptChunkFrame ==
    decRun.pc = "decrypted" =>
        /\ Len(decRun.out) = Len(decRun.chunk)
        /\ \A k \in 1..Len(decRun.chunk) :
             decRun.out[k] # decRun.chunk[k]
                => InDecryptedSection(decRun.chunkOffset + k - 1, decRun.sections)
        /\ decRun.sectionsAfter = decRun.sections

\* C18 witness: a chunk that an XTS section and a CTR section both reach;
\* bytes of the CTR section changed, those of the XTS section and those in
\* no section did not.
C18_Witness ==
    /\ decRun.pc = "decrypted"
    /\ Len(decRun.sections) = 2
    /\ decRun.sections[1].CryptoType = CryptoTypeXTS
    /\ decRun.sections[2].CryptoType = CryptoTypeCTR
    /\ decRun.sections[1].Offset = 32 /\ decRun.sections[1].Size = 8
    /\ decRun.sections[2].Offset = 40 /\ decRun.sections[2].Size = 24
    /\ decRun.chunkOffset = 32 /\ Len(decRun.chunk) = 40
    /\ \E k \in 9..32 : decRun.out[k] # decRun.chunk[k]
    /\ \A k \in (1..8) \cup (33..40) : decRun.out[k] = decRun.chunk[k]

(***************************************************************************)
(* processNsp and Pfs0Writer: the repack of a PFS0 archive                 *)
(*                                                                         *)
(* A name is a sequence of character codes.  A source file is [name, size, *)
(* data, parses, contentType]: size is the entry's DataSize, data the      *)
(* bytes the source holds for it (fewer than size when the archive is cut  *)
(* short), parses tells whether fs.NewNCA succeeds on it.  The writer is   *)
(* [stringTable, entries, headerSize, dataOffset, head, body]: head holds  *)
(* the bytes written at offset 0 of the output file, body the bytes after  *)
(* the header.                                                             *)
(***************************************************************************)
\* Largest number of entries of a source archive.
MaxFiles == 2

\* strings.ToLower on ASCII
ToLowerChar(c) == IF c >= 65 /\ c <= 90 THEN c + 32 ELSE c
ToLower(name) == [k \in 1..Len(name) |-> ToLowerChar(name[k])]

\* filepath.Ext: the suffix from the last dot on, empty without a dot
RECURSIVE Ext(_)
Ext(name) ==
    IF name = <<>> THEN <<>>
    ELSE IF \A k \in 1..Len(name) : name[k] # 46 THEN <<>>
    ELSE IF name[1] = 46 /\ \A k \in 2..Len(name) : name[k] # 46 THEN name
    ELSE Ext(Tail(name))

HasSuffix(name, suffix) ==
    /\ Len(name) >= Len(suffix)
    /\ SubSeq(name, Len(name) - Len(suffix) + 1, Len(name)) = suffix

\* strings.TrimSuffix
TrimSuffix(name, suffix) ==
    IF HasSuffix(name, suffix) THEN SubSeq(name, 1, Len(name) - Len(suffix)) ELSE name

DotNca == <<46, 110, 99, 97>>
DotNcz == <<46, 110, 99, 122>>

\* processNsp, "Prepare output file list": shouldCompress[i]
ShouldCompress(file) ==
    /\ ToLower(Ext(file.name)) = DotNca
    /\ file.parses
    /\ file.contentType = 0 \/ file.contentType = 5
    /\ file.size > NcaFullHeaderSize

\* processNsp, "Prepare output file list": outputNames[i]
OutputName(file) ==
    IF ShouldCompress(file)
    THEN TrimSuffix(file.name, ToLower(Ext(file.name))) \o DotNcz
    ELSE file.name

\* NewPfs0Writer: the string table and the name offsets
StringTableOf(names) == Concat([i \in 1..Len(names) |-> Append(names[i], 0)])
NameOffsetOf(names, i) == SumSeq([k \in 1..(i - 1) |-> Len(names[k]) + 1])

NewPfs0Writer(names) ==
    [stringTable |-> StringTableOf(names),
     entries |-> [i \in 1..Len(names) |->
                    [NameOffset |-> NameOffsetOf(names, i), DataOffset |-> 0,
                     DataSize |-> 0]],
     headerSize |-> 16 + Len(names) * 24 + Len(StringTableOf(names)),
     dataOffset |-> 0,
     head |-> <<>>,
     body |-> <<>>]

\* Pfs0Writer.AddFile(index, r, size), r being the bytes the reader
\* delivers before io.EOF: the entry records size, io.Copy writes r and
\* returns n = len(r)
AddFile(w, index, r, size) ==
    [w EXCEPT !.entries[index].DataOffset = w.dataOffset,
              !.entries[index].DataSize = size,
              !.body = @ \o r,
              !.dataOffset = @ + Len(r)]

\* Pfs0Writer.AddCompressedFile(index, r, size, titleKey, level) when
\* CompressNca wrote stream and returned its length
AddCompressedFile(w, index, stream) ==
    [w EXCEPT !.entries[index].DataOffset = w.dataOffset,
              !.entries[index].DataSize = Len(stream),
              !.body = @ \o stream,
              !.dataOffset = @ + Len(stream)]

\* binary.Write(w.f, binary.LittleEndian, w.entries): one PFS0FileEntry
EncodePfs0Entry(e) ==
    LittleEndian(e.DataOffset, 8) \o LittleEndian(e.DataSize, 8)
        \o LittleEndian(e.NameOffset, 4) \o LittleEndian(0, 4)

MagicPFS0 == <<80, 70, 83, 48>>

\* Pfs0Writer.Close: at offset 0 the PFS0Header, the entries and the
\* string table
Close(w) ==
    [w EXCEPT !.head =
        MagicPFS0 \o LittleEndian(Len(w.entries), 4)
            \o LittleEndian(Len(w.stringTable), 4) \o LittleEndian(0, 4)
            \o Concat([i \in 1..Len(w.entries) |-> EncodePfs0Entry(w.entries[i])])
            \o w.stringTable]

\* the stream CompressNca writes for an NCA: the header prefix as it is,
\* the section magic, and a body that here is every second data byte
NczStreamOf(data) ==
    Slice(data, 0, NcaFullHeaderSize) \o MagicNCZSECTN
        \o [k \in 1..((Len(data) - NcaFullHeaderSize) \div 2) |->
               data[NcaFullHeaderSize + 2 * k]]

FileData(seed, size) == [k \in 1..size |-> (3 * k + seed) % 256]

\* a.nca, b.NCA, c.tik, d
NameLowerNca == <<97, 46, 110, 99, 97>>
NameUpperNca == <<98, 46, 78, 67, 65>>
NameTicket == <<99, 46, 116, 105, 107>>
NameNoExt == <<100>>

\* NCA entries of the header prefix only or with 8 data bytes; a ticket and
\* a file without extension of 8 bytes, whole or cut after 5 bytes by the
\* end of the source archive
FileChoices ==
    { [name |-> name, size |-> size, data |-> FileData(name[1], size),
       parses |-> parses, contentType |-> ct] :
         name \in {NameLowerNca, NameUpperNca},
         size \in {NcaFullHeaderSize, NcaFullHeaderSize + 8},
         parses \in BOOLEAN, ct \in {0, 1, 5} }
    \cup
    { [name |-> name, size |-> 8, data |-> FileData(name[1], held),
       parses |-> FALSE, contentType |-> 0] :
         name \in {NameTicket, NameNoExt}, held \in {8, 5} }

RECURSIVE Archives(_)
Archives(n) ==
    IF n = 0 THEN {<<>>}
    ELSE Archives(n - 1)
            \cup {Append(a, file) : a \in {x \in Archives(n - 1) : Len(x) = n - 1},
                                    file \in {g \in FileChoices : g.parses \/ g.contentType = 0}}

NoWriter == [stringTable |-> <<>>, entries |-> <<>>, headerSize |-> 0,
             dataOffset |-> 0, head |-> <<>>, body |-> <<>>]

InitNsp ==
    /\ \E files \in Archives(MaxFiles) :
         nspRun = [pc |-> "names", files |-> files, outputNames |-> <<>>,
                   shouldCompress |-> <<>>, w |-> NoWriter, i |-> 0,
                   streams |-> [k \in 1..Len(files) |-> Nil],
                   failed |-> FALSE, closed |-> FALSE]
    /\ PipelineOff
    /\ ctrRun = Off /\ kgRun = Off /\ blkRun = Off /\ secRun = Off
    /\ keyRun = Off /\ bktrRun = Off /\ decRun = Off

\* processNsp: the output names, shouldCompress, and fs.NewPfs0Writer
NspPrepare ==
    /\ nspRun.pc = "names"
    /\ LET names == [k \in 1..Len(nspRun.files) |-> OutputName(nspRun.files[k])]
       IN  nspRun' = [nspRun EXCEPT
                        !.outputNames = names,
                        !.shouldCompress =
                            [k \in 1..Len(nspRun.files) |-> ShouldCompress(nspRun.files[k])],
                        !.w = NewPfs0Writer(names),
                        !.pc = "process"]
    /\ UNCHANGED <<nca, cn, ws, cb, workCh, resultCh, workers,
                   ctrRun, kgRun, blkRun, secRun, keyRun, bktrRun, decRun>>

\* processNsp, "Processing Loop", one file copied: writer.AddFile
NspAddFile ==
    /\ nspRun.pc = "process"
    /\ nspRun.i < Len(nspRun.files)
    /\ ~nspRun.shouldCompress[nspRun.i + 1]
    /\ nspRun' = [nspRun EXCEPT
                    !.w = AddFile(nspRun.w, nspRun.i + 1, nspRun.files[nspRun.i + 1].data,
                                  nspRun.files[nspRun.i + 1].size),
                    !.i = @ + 1]
    /\ UNCHANGED <<nca, cn, ws, cb, workCh, resultCh, workers,
                   ctrRun, kgRun, blkRun, secRun, keyRun, bktrRun, decRun>>

\* processNsp, "Processing Loop", one file compressed:
\* writer.AddCompressedFile; CompressNca succeeds ...
NspAddCompressedFile ==
    /\ nspRun.pc = "process"
    /\ nspRun.i < Len(nspRun.files)
    /\ nspRun.shouldCompress[nspRun.i + 1]
    /\ LET stream == NczStreamOf(nspRun.files[nspRun.i + 1].data)
       IN  nspRun' = [nspRun EXCEPT
                        !.w = AddCompressedFile(nspRun.w, nspRun.i + 1, stream),
                        !.streams[nspRun.i + 1] = stream,
                        !.i = @ + 1]
    /\ UNCHANGED <<nca, cn, ws, cb, workCh, resultCh, workers,
                   ctrRun, kgRun, blkRun, secRun, keyRun, bktrRun, decRun>>

\* ... or fails: the entry keeps its data offset, processNsp returns
NspCompressFails ==
    /\ nspRun.pc = "process"
    /\ nspRun.i < Len(nspRun.files)
    /\ nspRun.shouldCompress[nspRun.i + 1]
    /\ nspRun' = [nspRun EXCEPT
                    !.w.entries[nspRun.i + 1].DataOffset = nspRun.w.dataOffset,
                    !.failed = TRUE,
                    !.pc = "return"]
    /\ UNCHANGED <<nca, cn, ws, cb, workCh, resultCh, workers,
                   ctrRun, kgRun, blkRun, secRun, keyRun, bktrRun, decRun>>

\* processNsp: the loop is over
NspLoopEnd ==
    /\ nspRun.pc = "process"
    /\ nspRun.i = Len(nspRun.files)
    /\ nspRun' = [nspRun EXCEPT !.pc = "return"]
    /\ UNCHANGED <<nca, cn, ws, cb, workCh, resultCh, workers,
                   ctrRun, kgRun, blkRun, secRun, keyRun, bktrRun, decRun>>

\* defer writer.Close(): the header, the entries and the string table
NspClose ==
    /\ nspRun.pc = "return"
    /\ nspRun' = [nspRun EXCEPT !.w = Close(@), !.closed = TRUE, !.pc = "closed"]
    /\ UNCHANGED <<nca, cn, ws, cb, workCh, resultCh, workers,
                   ctrRun, kgRun, blkRun, secRun, keyRun, bktrRun, decRun>>

NextNsp ==
    \/ NspPrepare
    \/ NspAddFile
    \/ NspAddCompressedFile
    \/ NspCompressFails
    \/ NspLoopEnd
    \/ NspClose

SpecNsp == InitNsp /\ [][NextNsp]_vars

\* the output archive read back: the name of entry i is the string at its
\* name offset up to the null byte, its data the DataSize bytes at its
\* data offset
RECURSIVE UpToNull(_)
UpToNull(s) == IF s = <<>> \/ s[1] = 0 THEN <<>> ELSE <<s[1]>> \o UpToNull(Tail(s))

OutName(i) ==
    UpToNull(SubSeq(nspRun.w.stringTable, nspRun.w.entries[i].NameOffset + 1,
                    Len(nspRun.w.stringTable)))
OutData(i) ==
    Slice(nspRun.w.body, nspRun.w.entries[i].DataOffset,
          Min(nspRun.w.entries[i].DataOffset + nspRun.w.entries[i].DataSize,
              Len(nspRun.w.body)))

\* the repack went through: every entry was added and the header written
Repacked == nspRun.pc = "closed" /\ ~nspRun.failed

\* the condition of the claim on a source entry
NcaToCompress(file) ==
    /\ HasSuffix(file.name, DotNca)
    /\ file.parses
    /\ file.contentType \in {0, 5}
    /\ file.size > NcaFullHeaderSize

\* C14 (as claimed): the output archive has the same number of entries in
\* the same order as the source; entry i is named <stem>.ncz and holds the
\* NCZ stream iff the source name ends in .nca, its NCA header parses with
\* content type 0 or 5 and its size exceeds the header prefix; every other
\* entry keeps its name and its data is a byte-for-byte copy.
C14_Repack ==
    Repacked =>
        /\ Len(nspRun.w.entries) = Len(nspRun.files)
        /\ \A i \in 1..Len(nspRun.files) :
             LET file == nspRun.files[i]
             IN  IF NcaToCompress(file)
                 THEN /\ OutName(i) = SubSeq(file.name, 1, Len(file.name) - 4) \o DotNcz
                      /\ OutData(i) = NczStreamOf(file.data)
                 ELSE /\ OutName(i) = file.name
                      /\ OutData(i) = file.data

\* The same for archives whose names carry no upper-case extension and
\* whose entries are whole.
RepackLowerCaseNames ==
    (Repacked /\ \A i \in 1..Len(nspRun.files) :
                    /\ Ext(nspRun.files[i].name) = ToLower(Ext(nspRun.files[i].name))
                    /\ Len(nspRun.files[i].data) = nspRun.files[i].size)
        => /\ Len(nspRun.w.entries) = Len(nspRun.files)
           /\ \A i \in 1..Len(nspRun.files) :
                LET file == nspRun.files[i]
                IN  IF NcaToCompress(file)
                    THEN /\ OutName(i) = SubSeq(file.name, 1, Len(file.name) - 4) \o DotNcz
                         /\ OutData(i) = NczStreamOf(file.data)
                    ELSE /\ OutName(i) = file.name
                         /\ OutData(i) = file.data

\* An entry named b.NCA is compressed and stored under the name b.NCA.ncz.
UpperCaseNcaCompressed ==
    /\ Repacked
    /\ Len(nspRun.files) = 2
    /\ nspRun.files[2].name = NameUpperNca
    /\ nspRun.shouldCompress[2]
    /\ OutName(2) = NameUpperNca \o DotNcz
    /\ OutData(2) = NczStreamOf(nspRun.files[2].data)
    /\ OutName(1) = nspRun.files[1].name

\* a step in which a worker reads, decrypts and compresses an item
ProcessesItem ==
    \E w \in 1..Len(workers) :
        /\ workers[w].pc = "process"
        /\ workers'[w].pc = "send"

\* a step in which a worker's read fails
ReadFails ==
    \E w \in 1..Len(workers) :
        /\ workers[w].pc = "process"
        /\ workers'[w].pc # "send"

\* the error is recorded once: a later error never replaces it, and it is
\* the error of the read that failed in the step that set it
ErrorLatchedOnce ==
    [][/\ cb.workerErr.set => cb'.workerErr = cb.workerErr
       /\ (~cb.workerErr.set /\ cb'.workerErr.set) =>
             \E w \in 1..Len(workers) :
                /\ workers[w].pc = "process"
                /\ nca.readN[workers[w].item.index + 1] = 0
                /\ cb'.workerErr.index = workers[w].item.index]_vars

\* compressBlocks returns the recorded error, and no block list, only after
\* all workers and the collector have finished
ErrorReturnedAfterJoin ==
    (cn.pc = "failed" /\ cn.err = "read")
        => /\ cb.workerErr.set
           /\ AllGoroutinesDone
           /\ ws.buf = WsWrite(WriteNczHeader(
                                   WsWrite([buf |-> SubSeq(ws.buf, 1, cn.startPos),
                                            pos |-> cn.startPos],
                                           Slice(nca.data, 0, NcaFullHeaderSize)),
                                   cn.sections),
                               EncodeBlockHeader(cn.blockCount,
                                                 nca.totalSize - NcaFullHeaderSize)
                                  \o Zeros(cn.blockCount * 4)).buf

\* C15 (as claimed): once a worker's block read has failed, the first such
\* error is recorded exactly once and never replaced, no work item is read,
\* decrypted or compressed any more (the remaining items are drained), and
\* compressBlocks returns that error only after all workers and the
\* collector have finished.
C15_WorkerErrorDrains ==
    [][/\ cb.workerErr.set => cb'.workerErr = cb.workerErr
       /\ cb.workerErr.set => ~ProcessesItem
       /\ (cn.pc # "failed" /\ cn'.pc = "failed" /\ cn'.err = "read")
             => (cb.workerErr.set /\ AllGoroutinesDone)]_vars

\* After the first error, a remaining item is still read, compressed and
\* stored: block 1 fails, block 2 is processed afterwards.
ProcessedAfterError ==
    /\ cb.workerErr.set
    /\ cb.workerErr.index = 0
    /\ cb.numWorkers = 1
    /\ Len(cb.results) >= 2
    /\ cb.results[2] # Nil

(***************************************************************************)
(* Termination of compressBlocks.  Whether the goroutines finish depends   *)
(* on the channels, the wait groups and the outcome of each read, not on   *)
(* the bytes; these runs carry, in the place of a block's data, the        *)
(* block's index.  The Go scheduler runs every goroutine that can take a   *)
(* step: the main goroutine, each worker and the collector are weakly      *)
(* fair.                                                                   *)
(***************************************************************************)
\* Largest block count of a run with one worker: more than the work
\* channel and the result channel hold.
MaxLiveBlocks == 6

\* every pattern of read successes (1 byte stands for the block) and
\* failures over blockCount blocks
ReadPatterns(blockCount) == [1..blockCount -> {0, 1}]

InitLive ==
    /\ \E numWorkers \in 1..MaxWorkers :
         \E blockCount \in 0..(IF numWorkers = 1 THEN MaxLiveBlocks ELSE MaxBlocks) :
           \E readN \in ReadPatterns(blockCount) :
              /\ nca = [totalSize |-> NcaFullHeaderSize + blockCount * BlockSize,
                        readN |-> readN]
              /\ cn = [pc |-> "start", err |-> "", blockCount |-> blockCount]
              /\ cb = [numWorkers |-> numWorkers, i |-> 0, results |-> <<>>,
                       workerErr |-> [set |-> FALSE, index |-> 0],
                       workClosed |-> FALSE, resultClosed |-> FALSE,
                       collector |-> "idle"]
    /\ ws = Off
    /\ workCh = <<>>
    /\ resultCh = <<>>
    /\ workers = <<>>
    /\ ctrRun = Off /\ kgRun = Off /\ blkRun = Off /\ secRun = Off
    /\ OtherRunsOff

\* compressBlocks up to its submit loop: results, the channels, the
\* collector and the workers
LiveBegin ==
    /\ cn.pc = "start"
    /\ cn' = [cn EXCEPT !.pc = "submit"]
    /\ cb' = [cb EXCEPT !.results = [k \in 1..cn.blockCount |-> Nil],
                        !.collector = "run"]
    /\ workers' = [w \in 1..cb.numWorkers |-> IdleWorker]
    /\ UNCHANGED <<nca, ws, workCh, resultCh, pureRuns>>

\* worker: the read fails and the error is recorded, or the block is
\* encoded
LiveProcess(w) ==
    /\ workers[w].pc = "process"
    /\ LET item == workers[w].item
           n == nca.readN[item.index + 1]
       IN  IF n = 0
           THEN /\ cb' = [cb EXCEPT !.workerErr =
                            IF @.set THEN @ ELSE [set |-> TRUE, index |-> item.index]]
                /\ workers' = [workers EXCEPT ![w] = AfterReadError]
           ELSE /\ workers' = [workers EXCEPT ![w] =
                                 [pc |-> "send", item |-> item, data |-> <<item.index>>]]
                /\ cb' = cb
    /\ UNCHANGED <<nca, cn, ws, workCh, resultCh, pureRuns>>

\* compressBlocks returns: nil, workerErr or results, nil
LiveReturn ==
    /\ cn.pc = "waitCollector"
    /\ cb.collector = "done"
    /\ cn' = [cn EXCEPT !.pc = IF cb.workerErr.set THEN "failed" ELSE "done",
                        !.err = IF cb.workerErr.set THEN "read" ELSE ""]
    /\ UNCHANGED <<nca, ws, cb, workCh, resultCh, workers, pureRuns>>

MainStep ==
    \/ LiveBegin
    \/ Submit
    \/ CloseWork
    \/ CloseResults
    \/ LiveReturn

WorkerStep(w) ==
    /\ w <= Len(workers)
    /\ \/ WorkerRecv(w)
       \/ LiveProcess(w)
       \/ WorkerSend(w)
       \/ WorkerExit(w)

CollectorStep == CollectorRecv \/ CollectorExit

NextLive ==
    \/ LiveBegin
    \/ Submit
    \/ CloseWork
    \/ \E w \in 1..Len(workers) : WorkerRecv(w)
    \/ \E w \in 1..Len(workers) : LiveProcess(w)
    \/ \E w \in 1..Len(workers) : WorkerSend(w)
    \/ \E w \in 1..Len(workers) : WorkerExit(w)
    \/ CollectorRecv
    \/ CollectorExit
    \/ CloseResults
    \/ LiveReturn

SpecLive ==
    /\ InitLive
    /\ [][NextLive]_vars
    /\ WF_vars(MainStep)
    /\ \A w \in 1..MaxWorkers : WF_vars(WorkerStep(w))
    /\ WF_vars(CollectorStep)

\* compressBlocks is running
InCompressBlocks == cn.pc \in {"submit", "waitWorkers", "waitCollector"}

\* the submitter has enqueued every item, every worker has left its loop,
\* the result channel is closed and the collector has left its loop
CompressBlocksOver ==
    /\ cb.i = cn.blockCount
    /\ cb.workClosed
    /\ \A w \in 1..Len(workers) : workers[w].pc = "exit"
    /\ cb.resultClosed
    /\ cb.collector = "done"

\* some goroutine can take a step
SomeStepEnabled ==
    \/ ENABLED MainStep
    \/ \E w \in 1..Len(workers) : ENABLED WorkerStep(w)
    \/ ENABLED CollectorStep

\* C20: compressBlocks always terminates: for every block count, worker
\* count and pattern of read successes and failures, the submitter
\* eventually enqueues all work items, every worker exits, the result
\* channel is closed, the collector exits and compressBlocks returns; and
\* while it runs some goroutine can always take a step (no deadlock).
C20_CompressBlocksTerminates ==
    /\ [](InCompressBlocks => SomeStepEnabled)
    /\ (cn.pc = "start") ~> (CompressBlocksOver /\ cn.pc \in {"done", "failed"})

\* C20 witness: a run of one worker with more blocks than the channels
\* hold and two failed reads has returned, every goroutine gone.
C20_Witness ==
    /\ cn.pc = "failed"
    /\ cb.numWorkers = 1
    /\ cn.blockCount > ChanCap(1)
    /\ Cardinality({k \in 1..cn.blockCount : nca.readN[k] = 0}) = 2
    /\ CompressBlocksOver
    /\ AllGoroutinesDone

(***************************************************************************)
(* decompressed_size against the bytes compressBlocks encoded              *)
(***************************************************************************)
\* the decompressed_size field of the NCZBLOCK header, read back from the
\* output: the header's last 8 bytes, right before the size table
DeclaredDecompressedSize == OutU(cn.sizeListOffset - 8, 8)

\* len(chunk[:n]) for block i: the plaintext that was read, decrypted and
\* encoded for it
EncodedPlainLength(i) == Len(RawOf(i))

EncodedPlainTotal ==
    SumSeq([k \in 1..cn.blockCount |-> EncodedPlainLength(k - 1)])

\* a read that returned an error with some of the bytes asked for
ShortReadAccepted(i) ==
    /\ nca.readN[i + 1] > 0
    /\ nca.readN[i + 1] < ItemOf(i).size

\* C21 (as claimed): whenever CompressNca returns success, the
\* decompressed_size written in the NCZBLOCK header (T - header prefix)
\* equals the sum over all blocks of the plaintext length that was actually
\* read and encoded for that block, also when a positional read returned
\* fewer bytes than requested together with an error (n > 0).
C21_DecompressedSizeMatches ==
    cn.pc = "done" =>
        /\ DeclaredDecompressedSize = nca.totalSize - NcaFullHeaderSize
        /\ DeclaredDecompressedSize = EncodedPlainTotal

\* The same for the runs in which every read returned all its bytes.
DecompressedSizeFullReads ==
    (cn.pc = "done" /\ ReadsAreFull) =>
        /\ DeclaredDecompressedSize = nca.totalSize - NcaFullHeaderSize
        /\ DeclaredDecompressedSize = EncodedPlainTotal

\* A successful run in which a short read was accepted: the stream holds
\* the block's n bytes (encoded) and declares one byte more than it holds.
ShortReadDeclaredTooLong ==
    /\ cn.pc = "done"
    /\ \E i \in 0..(cn.blockCount - 1) :
         /\ ShortReadAccepted(i)
         /\ OutBlock(i) = SmallerOf(RawOf(i))
    /\ DeclaredDecompressedSize = EncodedPlainTotal + 1

(***************************************************************************)
(* Pfs0Writer: the entry table against the data region                     *)
(***************************************************************************)
\* the output file: the header region, zero until Close writes it, and
\* the data after it
Pfs0FileOf(w) ==
    (IF w.head = <<>> THEN Zeros(w.headerSize) ELSE w.head) \o w.body

DecodePfs0Entry(bytes) ==
    [DataOffset |-> FromLittleEndian(Slice(bytes, 0, 8)),
     DataSize |-> FromLittleEndian(Slice(bytes, 8, 16)),
     NameOffset |-> FromLittleEndian(Slice(bytes, 16, 20))]

\* OpenPfs0 on the bytes of an archive: the magic test, the entries, the
\* string table and the header size
OpenPfs0(bytes) ==
    LET numFiles == FromLittleEndian(Slice(bytes, 4, 8))
        stringTableSize == FromLittleEndian(Slice(bytes, 8, 12))
    IN  [ok |-> Slice(bytes, 0, 4) = MagicPFS0,
         entries |-> [i \in 1..numFiles |->
                        DecodePfs0Entry(Slice(bytes, 16 + 24 * (i - 1), 16 + 24 * i))],
         stringTable |-> Slice(bytes, 16 + 24 * numFiles,
                               16 + 24 * numFiles + stringTableSize),
         headerSize |-> 16 + 24 * numFiles + stringTableSize]

\* the bytes the call for entry i wrote: the stream of CompressNca, or what
\* io.Copy took from the reader
WrittenFor(i) ==
    IF nspRun.shouldCompress[i] THEN nspRun.streams[i] ELSE nspRun.files[i].data

\* entries 1..k of a table describe, one after the other from offset 0,
\* ranges as long as the bytes written for them
TableDescribesWrites(entries, k) ==
    \A i \in 1..k :
        /\ entries[i].DataOffset = SumSeq([j \in 1..(i - 1) |-> entries[j].DataSize])
        /\ entries[i].DataSize = Len(WrittenFor(i))

\* after the first nspRun.i calls: the table and dataOffset
TableAfterCalls ==
    /\ TableDescribesWrites(nspRun.w.entries, nspRun.i)
    /\ nspRun.i >= 1 => nspRun.w.entries[1].DataOffset = 0
    /\ nspRun.w.dataOffset = Len(nspRun.w.body)
    /\ nspRun.w.dataOffset = SumSeq([j \in 1..nspRun.i |-> Len(WrittenFor(j))])

\* after Close: the header read back from the file
HeaderAfterClose ==
    LET file == Pfs0FileOf(nspRun.w)
        pfs == OpenPfs0(file)
    IN  /\ pfs.ok
        /\ Len(pfs.entries) = Len(nspRun.files)
        /\ pfs.headerSize = nspRun.w.headerSize
        /\ pfs.stringTable = nspRun.w.stringTable
        /\ TableDescribesWrites(pfs.entries, Len(pfs.entries))
        /\ \A i \in 1..Len(pfs.entries) :
             /\ pfs.entries[i].NameOffset = nspRun.w.entries[i].NameOffset
             /\ pfs.headerSize + pfs.entries[i].DataOffset + pfs.entries[i].DataSize
                   <= Len(file)
             /\ Slice(file, pfs.headerSize + pfs.entries[i].DataOffset,
                      pfs.headerSize + pfs.entries[i].DataOffset
                         + pfs.entries[i].DataSize) = WrittenFor(i)
        /\ Len(file) = pfs.headerSize + nspRun.w.dataOffset

\* the calls made so far all succeeded
CallsSucceeded == nspRun.pc \in {"process", "return"} /\ ~nspRun.failed

\* C22 (as claimed): after any sequence of AddFile / AddCompressedFile
\* calls made in index order that all succeed, entry 0 has data_offset 0,
\* each entry i has data_offset equal to the sum of data_size of entries
\* 0..i-1, data_size[i] equals the number of bytes actually written for
\* entry i, and dataOffset equals the total bytes written after the header;
\* Close then writes a header whose entries describe exactly those ranges.
C22_EntryTableConsistent ==
    /\ CallsSucceeded => TableAfterCalls
    /\ Repacked => HeaderAfterClose

\* every source entry is whole: its reader delivers DataSize bytes
SourcesWhole ==
    \A i \in 1..Len(nspRun.files) : Len(nspRun.files[i].data) = nspRun.files[i].size

\* The same for the runs in which every reader delivers the size passed
\* to AddFile.
EntryTableWholeSources ==
    /\ (CallsSucceeded /\ SourcesWhole) => TableAfterCalls
    /\ (Repacked /\ SourcesWhole) => HeaderAfterClose

\* A closed archive whose first entry was cut short in the source: the
\* entry records the size passed to AddFile, more than io.Copy wrote, and
\* the second entry starts before the first one's recorded end.
CutEntryRecordedWhole ==
    /\ Repacked
    /\ Len(nspRun.files) = 2
    /\ ~nspRun.shouldCompress[1]
    /\ Len(nspRun.files[1].data) < nspRun.files[1].size
    /\ OpenPfs0(Pfs0FileOf(nspRun.w)).entries[1].DataSize = nspRun.files[1].size
    /\ OpenPfs0(Pfs0FileOf(nspRun.w)).entries[2].DataOffset = Len(nspRun.files[1].data)
    /\ nspRun.w.dataOffset = Len(nspRun.w.body)

=============================================================================
